---- MODULE Spec2Model ----
(***************************************************************************)
(* Image ingestion, rendition store and photo lifecycle of photomanager:   *)
(* the photo actions (upload, update, delete, bulkDelete, addToGallery,    *)
(* removeFromGallery, bulkAddToGallery), the image-size settings actions   *)
(* (getImageSizes, addImageSize, deleteImageSize) and the image-processing *)
(* library they call.  A request handler is a sequence of atomic steps,    *)
(* one per await that touches the database or the disk.                    *)
(*   Spec           photo and settings actions, one request at a time      *)
(*   SpecUpdate     upload, update and delete, one request at a time       *)
(*   SpecUpdateRace update and delete on two interleaved request slots     *)
(*   SpecSizes      the settings actions on two interleaved request slots  *)
(*   SpecGallery    upload and the gallery membership actions, two slots   *)
(*   SpecRoundTrip  uploads, and addImageSize followed by deleteImageSize  *)
(*   SpecStore      the store's delete functions, each called twice        *)
(*   SpecRegen      generateCustomSize over partial directories            *)
(*   SpecResize     the transcoder on its own                              *)
(***************************************************************************)
EXTENDS Integers, Sequences, FiniteSets, TLC

\* ------------------------------------------------------------------ bounds
\* createId() calls of processImageUpload: uploads that pass validation
MaxUploads == 2
\* length of the photoIds list handed to a bulk action
MaxBatch == 2
\* rows the galleryPhoto table may hold
MaxRows == 2
\* latest reading of the clock that stamps updatedAt, counted from the
\* insert of the row
MaxClock == 1
\* largest sortOrder an insert into galleryPhoto may assign
MaxOrder == 3

\* ------------------------------------------------------- fixed small sets
Procs == {1}
Users == {"u1", "u2"}
\* the rows of the gallery table (galleries are created elsewhere)
Galleries == {"g1"}
\* galleryId as a request can carry it: absent (""), existing, unknown
GalleryInputs == {"", "g1", "gX"}
ImageIds == 1..MaxUploads
PhotoIds == 1..MaxUploads
NoId == 0

\* ------------------------------------------------------ size registry
IMAGE_SIZES ==
  [thumbnail |-> [width |-> 200,  height |-> 200,  quality |-> 80],
   small     |-> [width |-> 400,  height |-> 400,  quality |-> 85],
   medium    |-> [width |-> 800,  height |-> 600,  quality |-> 90],
   large     |-> [width |-> 1200, height |-> 900,  quality |-> 92],
   xlarge    |-> [width |-> 1600, height |-> 1200, quality |-> 95],
   splash    |-> [width |-> 2000, height |-> 2000, quality |-> 95]]

BuiltInNames == DOMAIN IMAGE_SIZES
\* Object.entries(IMAGE_SIZES): insertion order of the literal
ImageSizeEntries == <<"thumbnail", "small", "medium", "large", "xlarge", "splash">>
\* names a caller can propose for a custom size
CustomNames == {"banner"}
SizeNames == BuiltInNames \cup CustomNames
\* the size configurations a caller can propose (within the zod bounds)
CustomConfigs == {[width |-> 1000, height |-> 300, quality |-> 80]}

\* ------------------------------------------------------ uploaded files
allowedTypes == {"image/jpeg", "image/jpg", "image/png", "image/webp"}
maxSize == 10 * 1024 * 1024

\* name/type/size: File.name, File.type and File.size; header: sharp's
\* metadata() yields width, height and format; pixels: the pixel data
\* decodes (a truncated JPEG has a readable header and fails in toFile);
\* w, h: the dimensions.
Files ==
  { [name |-> "a.jpg",  type |-> "image/jpeg", size |-> 4000000,     header |-> TRUE,  pixels |-> TRUE,  w |-> 3000, h |-> 2000],
    [name |-> "b.png",  type |-> "image/png",  size |-> maxSize,     header |-> TRUE,  pixels |-> TRUE,  w |-> 100,  h |-> 80],
    [name |-> "c.gif",  type |-> "image/gif",  size |-> 1000,        header |-> TRUE,  pixels |-> TRUE,  w |-> 100,  h |-> 80],
    [name |-> "d.jpg",  type |-> "image/jpeg", size |-> maxSize + 1, header |-> TRUE,  pixels |-> TRUE,  w |-> 3000, h |-> 2000],
    [name |-> "e.webp", type |-> "image/webp", size |-> 1000,        header |-> FALSE, pixels |-> FALSE, w |-> 0,    h |-> 0],
    [name |-> "f.jpg",  type |-> "image/jpeg", size |-> 2000000,     header |-> TRUE,  pixels |-> FALSE, w |-> 3000, h |-> 2000] }

\* title, description and tags as one value: what an upload carries, and
\* what an update can carry
UploadMetas == {"m1"}
UpdateMetas == {"m1", "m2"}

\* ------------------------------------------------------ transcoder
\* round(a / b) for a >= 0, b > 0, halves up
RoundDiv(a, b) == (2 * a + b) \div (2 * b)

AtLeastOne(n) == IF n < 1 THEN 1 ELSE n

\* variant: withoutEnlargement is not set
Resize_enlarges(w, h, W, H) ==
  IF W * h <= H * w
  THEN [w |-> W, h |-> AtLeastOne(RoundDiv(h * W, w))]
  ELSE [w |-> AtLeastOne(RoundDiv(w * H, h)), h |-> H]

\* sharp resize, fit: 'inside', withoutEnlargement: true
Resize(w, h, W, H) ==
  IF w <= W /\ h <= H THEN [w |-> w, h |-> h]
  ELSE IF W * h <= H * w
       THEN [w |-> W, h |-> AtLeastOne(RoundDiv(h * W, w))]
       ELSE [w |-> AtLeastOne(RoundDiv(w * H, h)), h |-> H]

\* Byte length of the WebP that sharp writes: positive, and a function of
\* the pixels written and of the quality.
EncodedBytes(w, h, quality) == (w * h * quality) \div 100 + 1

NoFile == [w |-> 0, h |-> 0, bytes |-> 0]

\* .resize(config.width, config.height, ...).webp({quality}).toFile(path)
Transcode(w, h, config) ==
  LET d == Resize(w, h, config.width, config.height)
  IN  [w |-> d.w, h |-> d.h, bytes |-> EncodedBytes(d.w, d.h, config.quality)]

\* ------------------------------------------------------ state
VARIABLES
  photo,         \* rows of table photo
  galleryPhoto,  \* rows of table galleryPhoto
  setting,       \* rows of table setting
  disk,          \* public/photos: per imageId, the directory and its files
  nextImageId,   \* imageIds createId() has handed out so far, plus one
  nextPhotoId,   \* photo ids createId() has handed out so far, plus one
  pc,            \* per request slot: the await the handler is suspended at
  loc            \* per request slot: the handler's input, locals and result

vars == <<photo, galleryPhoto, setting, disk, nextImageId, nextPhotoId, pc, loc>>
shared == <<photo, galleryPhoto, setting, disk, nextImageId, nextPhotoId>>

EmptyDir == [dir |-> FALSE, files |-> [n \in SizeNames |-> NoFile]]

Init ==
  /\ photo = {}
  /\ galleryPhoto = {}
  /\ setting = {}
  /\ disk = [i \in ImageIds |-> EmptyDir]
  /\ nextImageId = 1
  /\ nextPhotoId = 1
  /\ pc = [p \in Procs |-> "idle"]
  /\ loc = [p \in Procs |-> [op |-> "idle"]]

Idle(p) == pc[p] = "idle"

\* the response is sent and the request slot is free again
Return(p) ==
  /\ pc[p] = "done"
  /\ pc' = [pc EXCEPT ![p] = "idle"]
  /\ loc' = [loc EXCEPT ![p] = [op |-> "idle"]]
  /\ UNCHANGED <<photo, galleryPhoto, setting, disk, nextImageId, nextPhotoId>>

\* the handler returns (code "OK") or throws an ActionError (any other code)
Finish(p, l, code) ==
  /\ pc' = [pc EXCEPT ![p] = "done"]
  /\ loc' = [loc EXCEPT ![p] = [l EXCEPT !.code = code]]

Goto(p, l, label) ==
  /\ pc' = [pc EXCEPT ![p] = label]
  /\ loc' = [loc EXCEPT ![p] = l]

\* ------------------------------------------------------ rendition store
\* files present in directory i
FilesIn(d, i) == {n \in SizeNames : d[i].files[n] # NoFile}

RECURSIVE SumBytes(_, _)
SumBytes(fs, names) ==
  IF names = {} THEN 0
  ELSE LET n == CHOOSE x \in names : TRUE
       IN  fs[n].bytes + SumBytes(fs, names \ {n})

\* variant: totalSize = stats.size instead of totalSize += stats.size
calculateAssetFootprint_lastOnly(d, i) ==
  IF d[i].dir /\ d[i].files["splash"] # NoFile THEN d[i].files["splash"].bytes ELSE 0

\* readdir + stat of every entry; 0 when the directory cannot be read
calculateAssetFootprint(d, i) ==
  IF d[i].dir THEN SumBytes(d[i].files, FilesIn(d, i)) ELSE 0

\* rm(photosDir, {recursive: true, force: true})
RemoveDir(d, i) == [d EXCEPT ![i] = EmptyDir]

\* outcomes of a filesystem removal or of a database write
Outcomes == {"ok", "error"}

\* ------------------------------------------------------ table helpers
PhotoById(id) == {r \in photo : r.id = id}

\* variant: the delete does not cascade to galleryPhoto
DeletePhotoRow_noCascade(id) ==
  /\ photo' = {r \in photo : r.id # id}
  /\ galleryPhoto' = galleryPhoto

\* DELETE FROM photo WHERE id = ..., with ON DELETE CASCADE of galleryPhoto.photoId
DeletePhotoRow(id) ==
  /\ photo' = {r \in photo : r.id # id}
  /\ galleryPhoto' = {g \in galleryPhoto : g.photoId # id}

\* ------------------------------------------------------ photos.upload
\* validation, createId, metadata(), mkdir
UploadCall(p) ==
  /\ Idle(p)
  /\ \E user \in Users, file \in Files, galleryId \in GalleryInputs, meta \in UploadMetas :
       LET l == [op |-> "upload", code |-> "", user |-> user, file |-> file,
                 galleryId |-> galleryId, meta |-> meta, imageId |-> NoId,
                 photoId |-> NoId, todo |-> <<>>, assetFootprint |-> 0]
       IN  IF file.type \notin allowedTypes \/ file.size > maxSize
           THEN /\ Finish(p, l, "BAD_REQUEST")
                /\ UNCHANGED shared
           ELSE /\ nextImageId <= MaxUploads
                /\ nextImageId' = nextImageId + 1
                /\ IF ~file.header
                   THEN /\ Finish(p, [l EXCEPT !.imageId = nextImageId],
                                  "INTERNAL_SERVER_ERROR")
                        /\ UNCHANGED disk
                   ELSE /\ disk' = [disk EXCEPT ![nextImageId].dir = TRUE]
                        /\ Goto(p, [l EXCEPT !.imageId = nextImageId,
                                             !.todo = ImageSizeEntries], "write")
                /\ UNCHANGED <<photo, galleryPhoto, setting, nextPhotoId>>

\* variant: the loop over IMAGE_SIZES ends after its first iteration
UploadWrite_stopsEarly(p) ==
  /\ pc[p] = "write"
  /\ loc[p].op = "upload"
  /\ LET l == loc[p]
         n == Head(l.todo)
     IN  IF l.file.pixels /\ disk[l.imageId].dir
         THEN /\ disk' = [disk EXCEPT ![l.imageId].files[n] =
                             Transcode(l.file.w, l.file.h, IMAGE_SIZES[n])]
              /\ Goto(p, [l EXCEPT !.todo = Tail(l.todo)], "footprint")
         ELSE /\ Finish(p, l, "INTERNAL_SERVER_ERROR")
              /\ UNCHANGED disk
  /\ UNCHANGED <<photo, galleryPhoto, setting, nextImageId, nextPhotoId>>

\* one iteration of the loop over Object.entries(IMAGE_SIZES)
UploadWrite(p) ==
  /\ pc[p] = "write"
  /\ loc[p].op = "upload"
  /\ LET l == loc[p]
         n == Head(l.todo)
     IN  IF l.file.pixels /\ disk[l.imageId].dir
         THEN /\ disk' = [disk EXCEPT ![l.imageId].files[n] =
                             Transcode(l.file.w, l.file.h, IMAGE_SIZES[n])]
              /\ Goto(p, [l EXCEPT !.todo = Tail(l.todo)],
                      IF Len(l.todo) = 1 THEN "footprint" ELSE "write")
         ELSE /\ Finish(p, l, "INTERNAL_SERVER_ERROR")
              /\ UNCHANGED disk
  /\ UNCHANGED <<photo, galleryPhoto, setting, nextImageId, nextPhotoId>>

UploadFootprint(p) ==
  /\ pc[p] = "footprint"
  /\ loc[p].op = "upload"
  /\ Goto(p, [loc[p] EXCEPT !.assetFootprint =
                               calculateAssetFootprint(disk, loc[p].imageId)], "insert")
  /\ UNCHANGED shared

\* db.insert(photo).values(newPhoto).returning()
UploadInsert(p) ==
  /\ pc[p] = "insert"
  /\ loc[p].op = "upload"
  /\ LET l == loc[p] IN
     \E db \in Outcomes :
       IF db = "ok"
       THEN /\ photo' = photo \cup {[id |-> nextPhotoId, imageId |-> l.imageId,
                                      userId |-> l.user,
                                      assetFootprint |-> l.assetFootprint,
                                      meta |-> l.meta,
                                      originalFilename |-> l.file.name,
                                      updatedAt |-> 0]}
            /\ nextPhotoId' = nextPhotoId + 1
            /\ IF l.galleryId # ""
               THEN Goto(p, [l EXCEPT !.photoId = nextPhotoId], "link")
               ELSE Finish(p, [l EXCEPT !.photoId = nextPhotoId], "OK")
       ELSE /\ Finish(p, l, "INTERNAL_SERVER_ERROR")
            /\ UNCHANGED <<photo, nextPhotoId>>
  /\ UNCHANGED <<galleryPhoto, setting, disk, nextImageId>>

\* smallest row id not in use (row ids are never held by a handler)
FreshRowId == CHOOSE k \in 1..(MaxRows + MaxBatch + 1) : \A g \in galleryPhoto : g.id # k

\* the foreign keys of galleryPhoto
ForeignKeysHold(photoId, galleryId) ==
  /\ galleryId \in Galleries
  /\ PhotoById(photoId) # {}

\* db.insert(galleryPhoto).values({photoId, galleryId}): sortOrder takes its default, 0
UploadLink(p) ==
  /\ pc[p] = "link"
  /\ loc[p].op = "upload"
  /\ LET l == loc[p] IN
       IF ForeignKeysHold(l.photoId, l.galleryId)
       THEN /\ Cardinality(galleryPhoto) < MaxRows
            /\ galleryPhoto' = galleryPhoto \cup
                 {[id |-> FreshRowId, galleryId |-> l.galleryId,
                   photoId |-> l.photoId, sortOrder |-> 0]}
            /\ Finish(p, l, "OK")
       ELSE /\ Finish(p, l, "INTERNAL_SERVER_ERROR")
            /\ UNCHANGED galleryPhoto
  /\ UNCHANGED <<photo, setting, disk, nextImageId, nextPhotoId>>

\* ------------------------------------------------------ photos.update
\* the select of the photo and the existence check
UpdateCall(p) ==
  /\ Idle(p)
  /\ \E id \in PhotoIds, meta \in UpdateMetas :
       LET l == [op |-> "update", code |-> "", id |-> id, meta |-> meta, db |-> "",
                 returned |-> {}]
       IN  IF PhotoById(id) = {}
           THEN Finish(p, l, "NOT_FOUND")
           ELSE Goto(p, l, "dbupdate")
  /\ UNCHANGED shared

\* variant: the UPDATE has no WHERE id = input.id
UpdateWrite_noWhere(p) ==
  /\ pc[p] = "dbupdate"
  /\ LET l == loc[p] IN
     \E db \in Outcomes, now \in 0..MaxClock :
       IF db = "ok"
       THEN /\ \A r \in PhotoById(l.id) : r.updatedAt <= now
            /\ photo' = {[r EXCEPT !.meta = l.meta, !.updatedAt = now] : r \in photo}
            /\ Finish(p, [l EXCEPT !.db = db, !.returned = photo'], "OK")
       ELSE /\ now = 0
            /\ Finish(p, [l EXCEPT !.db = db], "INTERNAL_SERVER_ERROR")
            /\ UNCHANGED photo
  /\ UNCHANGED <<galleryPhoto, setting, disk, nextImageId, nextPhotoId>>

\* db.update(photo).set({title, description, tags, updatedAt: new Date()})
\* .where(id = input.id).returning(), or the catch block.  Timestamps count
\* from the insert of the row; `now` is the clock reading, never earlier
\* than the timestamp the row carries
\* (returned: the rows .returning() yields; the handler answers with the
\* first of them, which is undefined when there is none)
UpdateWrite(p) ==
  /\ pc[p] = "dbupdate"
  /\ LET l == loc[p] IN
     \E db \in Outcomes, now \in 0..MaxClock :
       IF db = "ok"
       THEN /\ \A r \in PhotoById(l.id) : r.updatedAt <= now
            /\ photo' = {IF r.id = l.id THEN [r EXCEPT !.meta = l.meta, !.updatedAt = now]
                                        ELSE r : r \in photo}
            /\ Finish(p, [l EXCEPT !.db = db,
                                   !.returned = {r \in photo' : r.id = l.id}], "OK")
       ELSE /\ now = 0
            /\ Finish(p, [l EXCEPT !.db = db], "INTERNAL_SERVER_ERROR")
            /\ UNCHANGED photo
  /\ UNCHANGED <<galleryPhoto, setting, disk, nextImageId, nextPhotoId>>

\* ------------------------------------------------------ deleteImageFiles
\* what rm can do to directory i: remove it, fail, or find it missing
RmOutcomes(i) == IF disk[i].dir THEN Outcomes ELSE {"missing"}

\* rm with force: a missing directory is no error; any other error is
\* caught and logged, and the directory stays.  Never throws.
deleteImageFiles(imageId, fs) ==
  disk' = IF fs = "ok" THEN RemoveDir(disk, imageId) ELSE disk

\* ------------------------------------------------------ photos.delete
DeleteCall(p) ==
  /\ Idle(p)
  /\ \E id \in PhotoIds :
       LET l == [op |-> "delete", code |-> "", id |-> id, imageId |-> NoId,
                 fs |-> "", db |-> ""]
           existingPhoto == PhotoById(id)
       IN  IF existingPhoto = {}
           THEN Finish(p, l, "NOT_FOUND")
           ELSE Goto(p, [l EXCEPT !.imageId = (CHOOSE r \in existingPhoto : TRUE).imageId],
                     "rm")
  /\ UNCHANGED shared

DeleteFiles(p) ==
  /\ pc[p] = "rm"
  /\ loc[p].op = "delete"
  /\ \E fs \in RmOutcomes(loc[p].imageId) :
       /\ deleteImageFiles(loc[p].imageId, fs)
       /\ Goto(p, [loc[p] EXCEPT !.fs = fs], "dbdelete")
  /\ UNCHANGED <<photo, galleryPhoto, setting, nextImageId, nextPhotoId>>

\* variant: a failed removal of the files is rethrown and skips the db delete
DeleteRecord_fsBlocks(p) ==
  /\ pc[p] = "dbdelete"
  /\ loc[p].op = "delete"
  /\ \E db \in Outcomes :
       IF db = "ok" /\ loc[p].fs # "error"
       THEN /\ DeletePhotoRow(loc[p].id)
            /\ Finish(p, [loc[p] EXCEPT !.db = db], "OK")
       ELSE /\ Finish(p, loc[p], "INTERNAL_SERVER_ERROR")
            /\ UNCHANGED <<photo, galleryPhoto>>
  /\ UNCHANGED <<setting, disk, nextImageId, nextPhotoId>>

\* db.delete(photo) and the return, or the catch block
DeleteRecord(p) ==
  /\ pc[p] = "dbdelete"
  /\ loc[p].op = "delete"
  /\ \E db \in Outcomes :
       IF db = "ok"
       THEN /\ DeletePhotoRow(loc[p].id)
            /\ Finish(p, [loc[p] EXCEPT !.db = db], "OK")
       ELSE /\ Finish(p, [loc[p] EXCEPT !.db = db], "INTERNAL_SERVER_ERROR")
            /\ UNCHANGED <<photo, galleryPhoto>>
  /\ UNCHANGED <<setting, disk, nextImageId, nextPhotoId>>

\* ------------------------------------------------------ bulk helpers
Range(s) == {s[k] : k \in DOMAIN s}

\* the photoIds lists a bulk action can be called with (min(1) by the schema)
IdLists == UNION {[1..k -> PhotoIds] : k \in 1..MaxBatch}

\* the orders in which a SELECT without ORDER BY can return the rows S
Orderings(S) ==
  {s \in [1..Cardinality(S) -> S] : \A a, b \in DOMAIN s : a # b => s[a] # s[b]}

\* SELECT * FROM photo WHERE id IN (photoIds)
PhotosIn(ids) == {r \in photo : r.id \in Range(ids)}

\* ------------------------------------------------------ photos.bulkDelete
\* variant: the check is existingPhotos.length === 0
BulkDeleteCall_skipsMissing(p) ==
  /\ Idle(p)
  /\ \E ids \in IdLists :
       LET l == [op |-> "bulkDelete", code |-> "", ids |-> ids, todo |-> <<>>,
                 deleted |-> <<>>, failed |-> <<>>, total |-> 0, fsBad |-> {}, dbBad |-> {}]
           existingPhotos == PhotosIn(ids)
       IN  IF existingPhotos = {}
           THEN Finish(p, l, "NOT_FOUND")
           ELSE \E rows \in Orderings(existingPhotos) :
                  Goto(p, [l EXCEPT !.todo = rows], "bulkRm")
  /\ UNCHANGED shared

\* the select of the photos and the all-or-nothing existence check
BulkDeleteCall(p) ==
  /\ Idle(p)
  /\ \E ids \in IdLists :
       LET l == [op |-> "bulkDelete", code |-> "", ids |-> ids, todo |-> <<>>,
                 deleted |-> <<>>, failed |-> <<>>, total |-> 0, fsBad |-> {}, dbBad |-> {}]
           existingPhotos == PhotosIn(ids)
       IN  IF Cardinality(existingPhotos) # Len(ids)
           THEN Finish(p, l, "NOT_FOUND")
           ELSE \E rows \in Orderings(existingPhotos) :
                  Goto(p, [l EXCEPT !.todo = rows], "bulkRm")
  /\ UNCHANGED shared

BulkDeleteFiles(p) ==
  /\ pc[p] = "bulkRm"
  /\ loc[p].op = "bulkDelete"
  /\ LET photoData == Head(loc[p].todo) IN
     \E fs \in RmOutcomes(photoData.imageId) :
       /\ deleteImageFiles(photoData.imageId, fs)
       /\ Goto(p, IF fs = "ok" THEN loc[p]
                   ELSE [loc[p] EXCEPT !.fsBad = @ \cup {photoData.id}], "bulkDb")
  /\ UNCHANGED <<photo, galleryPhoto, setting, nextImageId, nextPhotoId>>

\* variant: the catch block leaves the loop
BulkDeleteRecord_breaksOnFailure(p) ==
  /\ pc[p] = "bulkDb"
  /\ loc[p].op = "bulkDelete"
  /\ LET l == loc[p]
         photoData == Head(l.todo)
     IN  \E db \in Outcomes :
           LET l2 == IF db = "ok"
                     THEN [l EXCEPT !.deleted = Append(@, photoData.id), !.todo = Tail(@)]
                     ELSE [l EXCEPT !.failed = Append(@, photoData.id), !.todo = <<>>,
                                    !.dbBad = @ \cup {photoData.id}]
           IN  /\ IF db = "ok" THEN DeletePhotoRow(photoData.id)
                               ELSE UNCHANGED <<photo, galleryPhoto>>
               /\ IF l2.todo = <<>>
                  THEN Finish(p, [l2 EXCEPT !.total = Len(l.ids)], "OK")
                  ELSE Goto(p, l2, "bulkRm")
  /\ UNCHANGED <<setting, disk, nextImageId, nextPhotoId>>

\* db.delete of the item, the push onto deleted or failed, and the loop test
BulkDeleteRecord(p) ==
  /\ pc[p] = "bulkDb"
  /\ loc[p].op = "bulkDelete"
  /\ LET l == loc[p]
         photoData == Head(l.todo)
     IN  \E db \in Outcomes :
           LET l2 == IF db = "ok"
                     THEN [l EXCEPT !.deleted = Append(@, photoData.id), !.todo = Tail(@)]
                     ELSE [l EXCEPT !.failed = Append(@, photoData.id), !.todo = Tail(@),
                                    !.dbBad = @ \cup {photoData.id}]
           IN  /\ IF db = "ok" THEN DeletePhotoRow(photoData.id)
                               ELSE UNCHANGED <<photo, galleryPhoto>>
               /\ IF l2.todo = <<>>
                  THEN Finish(p, [l2 EXCEPT !.total = Len(l.ids)], "OK")
                  ELSE Goto(p, l2, "bulkRm")
  /\ UNCHANGED <<setting, disk, nextImageId, nextPhotoId>>

\* ------------------------------------------------------ photos.bulkAddToGallery
\* variant: the highest sort order is not read, every batch starts at 1
MaxSortOrder_notRead(galleryId) == 0

\* MAX(sortOrder) of a gallery, with (max || 0)
MaxSortOrder(galleryId) ==
  LET orders == {g.sortOrder : g \in {x \in galleryPhoto : x.galleryId = galleryId}}
  IN  IF orders = {} THEN 0 ELSE CHOOSE m \in orders : \A o \in orders : o <= m

RECURSIVE InsertRows(_, _, _, _)
\* rows with one row added per photo id of ids, sortOrder counting up from next
InsertRows(rows, ids, galleryId, next) ==
  IF ids = <<>> THEN rows
  ELSE LET id == CHOOSE k \in 1..(MaxRows + MaxBatch + 1) : \A g \in rows : g.id # k
       IN  InsertRows(rows \cup {[id |-> id, galleryId |-> galleryId,
                                  photoId |-> Head(ids), sortOrder |-> next]},
                      Tail(ids), galleryId, next + 1)

BulkAddCall(p) ==
  /\ Idle(p)
  /\ \E ids \in IdLists, galleryId \in GalleryInputs \ {""} :
       LET l == [op |-> "bulkAddToGallery", code |-> "", ids |-> ids,
                 galleryId |-> galleryId, photosToAdd |-> <<>>, nextSortOrder |-> 0,
                 added |-> 0, skipped |-> 0]
       IN  IF Cardinality(PhotosIn(ids)) # Len(ids)
           THEN Finish(p, l, "NOT_FOUND")
           ELSE Goto(p, l, "bulkAddExisting")
  /\ UNCHANGED shared

\* variant: the filter against existingPhotoIds is missing
BulkAddExisting_noFilter(p) ==
  /\ pc[p] = "bulkAddExisting"
  /\ Goto(p, [loc[p] EXCEPT !.photosToAdd = loc[p].ids], "bulkAddMax")
  /\ UNCHANGED shared

\* the select of the gallery's rows for these photos, the filter, the early return
BulkAddExisting(p) ==
  /\ pc[p] = "bulkAddExisting"
  /\ LET l == loc[p]
         existingPhotoIds == {g.photoId : g \in {x \in galleryPhoto :
                                 x.galleryId = l.galleryId /\ x.photoId \in Range(l.ids)}}
         photosToAdd == SelectSeq(l.ids, LAMBDA id : id \notin existingPhotoIds)
     IN  IF photosToAdd = <<>>
         THEN Finish(p, [l EXCEPT !.added = 0, !.skipped = Len(l.ids)], "OK")
         ELSE Goto(p, [l EXCEPT !.photosToAdd = photosToAdd], "bulkAddMax")
  /\ UNCHANGED shared

BulkAddMax(p) ==
  /\ pc[p] = "bulkAddMax"
  /\ Goto(p, [loc[p] EXCEPT !.nextSortOrder = MaxSortOrder(loc[p].galleryId) + 1],
          "bulkAddInsert")
  /\ UNCHANGED shared

\* one INSERT of all entries: a foreign-key failure inserts none and is not caught
BulkAddInsert(p) ==
  /\ pc[p] = "bulkAddInsert"
  /\ LET l == loc[p] IN
       IF \A k \in DOMAIN l.photosToAdd : ForeignKeysHold(l.photosToAdd[k], l.galleryId)
       THEN /\ Cardinality(galleryPhoto) + Len(l.photosToAdd) <= MaxRows
            /\ l.nextSortOrder + Len(l.photosToAdd) - 1 <= MaxOrder
            /\ galleryPhoto' = InsertRows(galleryPhoto, l.photosToAdd, l.galleryId,
                                          l.nextSortOrder)
            /\ Finish(p, [l EXCEPT !.added = Len(l.photosToAdd),
                                   !.skipped = Len(l.ids) - Len(l.photosToAdd)], "OK")
       ELSE /\ Finish(p, l, "INTERNAL_SERVER_ERROR")
            /\ UNCHANGED galleryPhoto
  /\ UNCHANGED <<photo, setting, disk, nextImageId, nextPhotoId>>

\* ------------------------------------------------------ settings: sizes
\* names a request can carry: the proposable custom names and one built-in
SizeNameInputs == CustomNames \cup {"thumbnail"}

\* setting rows of category image_sizes with this owner and key
CustomSizeRows(user, name) ==
  {r \in setting : r.userId = user /\ r.category = "image_sizes" /\ r.key = name}

\* variant: the select has no WHERE userId = user
UserImageIds_allUsers(user) == {r.imageId : r \in photo}

\* SELECT imageId FROM photo WHERE userId = user
UserImageIds(user) == {r.imageId : r \in {x \in photo : x.userId = user}}

\* variant: the search runs from the smallest built-in size upwards
sizeOrder_smallestFirst == <<"thumbnail", "small", "medium", "large", "xlarge", "splash">>


\* generateCustomSize: the first of sizeOrder present in the directory
sizeOrder == <<"splash", "xlarge", "large", "medium", "small", "thumbnail">>

SourceFile(d, i) ==
  LET present == {k \in DOMAIN sizeOrder : d[i].files[sizeOrder[k]] # NoFile}
  IN  IF present = {} THEN ""
      ELSE sizeOrder[CHOOSE k \in present : \A j \in present : k <= j]

\* generateCustomSize succeeds: readdir finds the directory and a source file
CanGenerate(d, i) == d[i].dir /\ SourceFile(d, i) # ""

generateCustomSize(d, i, sizeName, sizeConfig) ==
  LET src == d[i].files[SourceFile(d, i)]
  IN  [d EXCEPT ![i].files[sizeName] = Transcode(src.w, src.h, sizeConfig)]

\* ------------------------------------------------------ settings.addImageSize
\* variant: the name is not checked against the built-in sizes
AddSizeCall_noBuiltInCheck(p) ==
  /\ Idle(p)
  /\ \E user \in Users, name \in SizeNameInputs, config \in CustomConfigs,
        processExisting \in BOOLEAN :
       LET l == [op |-> "addSize", code |-> "", user |-> user, name |-> name,
                 config |-> config, flag |-> processExisting, photoCount |-> 0,
                 todo |-> <<>>, ran |-> FALSE, okCount |-> 0, failed |-> 0]
       IN  IF CustomSizeRows(user, name) # {}
           THEN Finish(p, l, "BAD_REQUEST")
           ELSE Goto(p, l, "sizeInsert")
  /\ UNCHANGED shared

\* variant: only the built-in names are checked
AddSizeCall_noCustomCheck(p) ==
  /\ Idle(p)
  /\ \E user \in Users, name \in SizeNameInputs, config \in CustomConfigs,
        processExisting \in BOOLEAN :
       LET l == [op |-> "addSize", code |-> "", user |-> user, name |-> name,
                 config |-> config, flag |-> processExisting, photoCount |-> 0,
                 todo |-> <<>>, ran |-> FALSE, okCount |-> 0, failed |-> 0]
       IN  IF name \in BuiltInNames
           THEN Finish(p, l, "BAD_REQUEST")
           ELSE Goto(p, l, "sizeInsert")
  /\ UNCHANGED shared

\* the check against IMAGE_SIZES and the select of the caller's custom sizes
AddSizeCall(p) ==
  /\ Idle(p)
  /\ \E user \in Users, name \in SizeNameInputs, config \in CustomConfigs,
        processExisting \in BOOLEAN :
       LET l == [op |-> "addSize", code |-> "", user |-> user, name |-> name,
                 config |-> config, flag |-> processExisting, photoCount |-> 0,
                 todo |-> <<>>, ran |-> FALSE, okCount |-> 0, failed |-> 0]
       IN  IF name \in BuiltInNames \/ CustomSizeRows(user, name) # {}
           THEN Finish(p, l, "BAD_REQUEST")
           ELSE Goto(p, l, "sizeInsert")
  /\ UNCHANGED shared

\* JSON.stringify(sizeConfig): the text stored in setting.value
JSONstringify(config) ==
  <<"{", "width", config.width, "height", config.height, "quality", config.quality, "}">>

\* JSON.parse(setting.value): ok is FALSE where parse throws
JSONparse(text) ==
  IF /\ Len(text) = 8
     /\ <<text[1], text[2], text[4], text[6], text[8]>> = <<"{", "width", "height", "quality", "}">>
  THEN [ok |-> TRUE, width |-> text[3], height |-> text[5], quality |-> text[7]]
  ELSE [ok |-> FALSE, width |-> 0, height |-> 0, quality |-> 0]

\* smallest setting row id not in use
FreshSettingId == CHOOSE k \in 1..(Cardinality(setting) + 1) : \A r \in setting : r.id # k

\* variant: the table has no unique index on key
AddSizeInsert_noUniqueKey(p) ==
  /\ pc[p] = "sizeInsert"
  /\ LET l == loc[p] IN
       /\ setting' = setting \cup {[id |-> FreshSettingId, key |-> l.name,
                                    userId |-> l.user, category |-> "image_sizes",
                                    value |-> JSONstringify(l.config)]}
       /\ Goto(p, l, "sizePhotos")
  /\ UNCHANGED <<photo, galleryPhoto, disk, nextImageId, nextPhotoId>>

\* db.insert(setting): setting.key is UNIQUE over all owners
AddSizeInsert(p) ==
  /\ pc[p] = "sizeInsert"
  /\ LET l == loc[p] IN
       IF \E r \in setting : r.key = l.name
       THEN /\ Finish(p, l, "INTERNAL_SERVER_ERROR")
            /\ UNCHANGED setting
       ELSE /\ setting' = setting \cup {[id |-> FreshSettingId, key |-> l.name,
                                         userId |-> l.user, category |-> "image_sizes",
                                         value |-> JSONstringify(l.config)]}
            /\ Goto(p, l, "sizePhotos")
  /\ UNCHANGED <<photo, galleryPhoto, disk, nextImageId, nextPhotoId>>

\* the select of the caller's photos and the test of processExisting
AddSizePhotos(p) ==
  /\ pc[p] = "sizePhotos"
  /\ LET l == loc[p]
         userPhotos == UserImageIds(l.user)
     IN  IF l.flag /\ userPhotos # {}
         THEN \E imageIds \in Orderings(userPhotos) :
                Goto(p, [l EXCEPT !.photoCount = Len(imageIds), !.todo = imageIds,
                                  !.ran = TRUE], "sizeGenerate")
         ELSE Finish(p, [l EXCEPT !.photoCount = Cardinality(userPhotos)], "OK")
  /\ UNCHANGED shared

\* variant: the backfill stores the recomputed footprint on the record
AddSizeGenerate_recomputes(p) ==
  /\ pc[p] = "sizeGenerate"
  /\ LET l == loc[p]
         imageId == Head(l.todo)
         success == CanGenerate(disk, imageId)
         l2 == IF success THEN [l EXCEPT !.okCount = @ + 1, !.todo = Tail(@)]
                          ELSE [l EXCEPT !.failed = @ + 1, !.todo = Tail(@)]
     IN  /\ disk' = IF success THEN generateCustomSize(disk, imageId, l.name, l.config)
                               ELSE disk
         /\ photo' = {IF r.imageId = imageId
                      THEN [r EXCEPT !.assetFootprint = calculateAssetFootprint(disk', imageId)]
                      ELSE r : r \in photo}
         /\ IF l2.todo = <<>> THEN Finish(p, l2, "OK") ELSE Goto(p, l2, "sizeGenerate")
  /\ UNCHANGED <<galleryPhoto, setting, nextImageId, nextPhotoId>>

\* one iteration of processExistingImagesForCustomSize
AddSizeGenerate(p) ==
  /\ pc[p] = "sizeGenerate"
  /\ LET l == loc[p]
         imageId == Head(l.todo)
         success == CanGenerate(disk, imageId)
         l2 == IF success THEN [l EXCEPT !.okCount = @ + 1, !.todo = Tail(@)]
                          ELSE [l EXCEPT !.failed = @ + 1, !.todo = Tail(@)]
     IN  /\ disk' = IF success THEN generateCustomSize(disk, imageId, l.name, l.config)
                               ELSE disk
         /\ IF l2.todo = <<>> THEN Finish(p, l2, "OK") ELSE Goto(p, l2, "sizeGenerate")
  /\ UNCHANGED <<photo, galleryPhoto, setting, nextImageId, nextPhotoId>>

\* ------------------------------------------------------ settings.getImageSizes
\* {...a, ...b}: the entries of b replace those of a with the same key
Spread(a, b) ==
  [n \in DOMAIN a \cup DOMAIN b |-> IF n \in DOMAIN b THEN b[n] ELSE a[n]]

\* the reduce over the selected rows: a row whose value does not parse is skipped
customSizesFormatted(rows) ==
  LET parsed == {r \in rows : JSONparse(r.value).ok}
  IN  [n \in {r.key : r \in parsed} |->
         LET config == JSONparse((CHOOSE r \in parsed : r.key = n).value)
         IN  [width |-> config.width, height |-> config.height,
              quality |-> config.quality, isCustom |-> TRUE]]

\* the built-in sizes, each spread into an entry with isCustom: false
defaultSizesFormatted ==
  [n \in BuiltInNames |-> [width |-> IMAGE_SIZES[n].width, height |-> IMAGE_SIZES[n].height,
                           quality |-> IMAGE_SIZES[n].quality, isCustom |-> FALSE]]

\* the select of the caller's image_sizes rows and the merged listing
GetImageSizes(p) ==
  /\ Idle(p)
  /\ \E user \in Users, db \in Outcomes :
       LET customSizes == {r \in setting : r.userId = user /\ r.category = "image_sizes"}
           l == [op |-> "getImageSizes", code |-> "", user |-> user,
                 sizes |-> <<>>]
       IN  IF db = "ok"
           THEN Finish(p, [l EXCEPT !.sizes = Spread(defaultSizesFormatted,
                                                     customSizesFormatted(customSizes))],
                       "OK")
           ELSE Finish(p, l, "INTERNAL_SERVER_ERROR")
  /\ UNCHANGED shared

\* ------------------------------------------------------ settings.deleteImageSize
\* variant: the existence check looks at the key alone, not at the owner
DeleteSizeCall_anyOwner(p) ==
  /\ Idle(p)
  /\ \E user \in Users, name \in SizeNameInputs, deleteExistingImages \in BOOLEAN :
       LET l == [op |-> "deleteSize", code |-> "", user |-> user, name |-> name,
                 flag |-> deleteExistingImages, photoCount |-> 0,
                 todo |-> <<>>, ran |-> FALSE, okCount |-> 0, failed |-> 0]
       IN  IF name \in BuiltInNames
           THEN Finish(p, l, "BAD_REQUEST")
           ELSE IF \A r \in setting : r.key # name
                THEN Finish(p, l, "NOT_FOUND")
                ELSE Goto(p, l, "sizeDelete")
  /\ UNCHANGED shared

DeleteSizeCall(p) ==
  /\ Idle(p)
  /\ \E user \in Users, name \in SizeNameInputs, deleteExistingImages \in BOOLEAN :
       LET l == [op |-> "deleteSize", code |-> "", user |-> user, name |-> name,
                 flag |-> deleteExistingImages, photoCount |-> 0,
                 todo |-> <<>>, ran |-> FALSE, okCount |-> 0, failed |-> 0]
       IN  IF name \in BuiltInNames
           THEN Finish(p, l, "BAD_REQUEST")
           ELSE IF CustomSizeRows(user, name) = {}
                THEN Finish(p, l, "NOT_FOUND")
                ELSE Goto(p, l, "sizeDelete")
  /\ UNCHANGED shared

\* the select of the caller's photos, db.delete(setting), the test of
\* deleteExistingImages
DeleteSizeRow(p) ==
  /\ pc[p] = "sizeDelete"
  /\ LET l == loc[p]
         userPhotos == UserImageIds(l.user)
     IN  /\ setting' = setting \ CustomSizeRows(l.user, l.name)
         /\ IF l.flag /\ userPhotos # {}
            THEN \E imageIds \in Orderings(userPhotos) :
                   Goto(p, [l EXCEPT !.photoCount = Len(imageIds), !.todo = imageIds,
                                     !.ran = TRUE], "sizeUnlink")
            ELSE Finish(p, [l EXCEPT !.photoCount = Cardinality(userPhotos)], "OK")
  /\ UNCHANGED <<photo, galleryPhoto, disk, nextImageId, nextPhotoId>>

\* variant: the file is counted as deleted without being unlinked
DeleteSizeUnlink_noUnlink(p) ==
  /\ pc[p] = "sizeUnlink"
  /\ LET l == loc[p]
         l2 == [l EXCEPT !.okCount = @ + 1, !.todo = Tail(@)]
     IN  IF l2.todo = <<>> THEN Finish(p, l2, "OK") ELSE Goto(p, l2, "sizeUnlink")
  /\ UNCHANGED shared

\* variant: ENOENT is not treated as success
DeleteSizeUnlink_enoentFails(p) ==
  /\ pc[p] = "sizeUnlink"
  /\ LET l == loc[p]
         imageId == Head(l.todo)
     IN  \E fs \in Outcomes :
           LET l2 == IF fs = "ok" THEN [l EXCEPT !.okCount = @ + 1, !.todo = Tail(@)]
                                  ELSE [l EXCEPT !.failed = @ + 1, !.todo = Tail(@)]
           IN  /\ fs = "ok" => disk[imageId].files[l.name] # NoFile
               /\ disk' = IF fs = "ok"
                          THEN [disk EXCEPT ![imageId].files[l.name] = NoFile]
                          ELSE disk
               /\ IF l2.todo = <<>> THEN Finish(p, l2, "OK") ELSE Goto(p, l2, "sizeUnlink")
  /\ UNCHANGED <<photo, galleryPhoto, setting, nextImageId, nextPhotoId>>

\* one iteration of deleteCustomSizeImages: unlink; ENOENT counts as success,
\* any other error as a failure
DeleteSizeUnlink(p) ==
  /\ pc[p] = "sizeUnlink"
  /\ LET l == loc[p]
         imageId == Head(l.todo)
     IN  \E fs \in Outcomes :
           LET l2 == IF fs = "ok" THEN [l EXCEPT !.okCount = @ + 1, !.todo = Tail(@)]
                                  ELSE [l EXCEPT !.failed = @ + 1, !.todo = Tail(@)]
           IN  /\ fs = "error" => disk[imageId].files[l.name] # NoFile
               /\ disk' = IF fs = "ok"
                          THEN [disk EXCEPT ![imageId].files[l.name] = NoFile]
                          ELSE disk
               /\ IF l2.todo = <<>> THEN Finish(p, l2, "OK") ELSE Goto(p, l2, "sizeUnlink")
  /\ UNCHANGED <<photo, galleryPhoto, setting, nextImageId, nextPhotoId>>

\* ------------------------------------------------------ specification
Next ==
  \E p \in Procs :
    \/ UploadCall(p)
    \/ UploadWrite(p)
    \/ UploadFootprint(p)
    \/ UploadInsert(p)
    \/ UploadLink(p)
    \/ DeleteCall(p)
    \/ DeleteFiles(p)
    \/ DeleteRecord(p)
    \/ BulkDeleteCall(p)
    \/ BulkDeleteFiles(p)
    \/ BulkDeleteRecord(p)
    \/ BulkAddCall(p)
    \/ BulkAddExisting(p)
    \/ BulkAddMax(p)
    \/ BulkAddInsert(p)
    \/ AddSizeCall(p)
    \/ AddSizeInsert(p)
    \/ AddSizePhotos(p)
    \/ AddSizeGenerate(p)
    \/ DeleteSizeCall(p)
    \/ DeleteSizeRow(p)
    \/ DeleteSizeUnlink(p)
    \/ Return(p)

Spec == Init /\ [][Next]_vars

\* upload, update and delete of photos, one request at a time
NextUpdate ==
  \E p \in Procs :
    \/ UploadCall(p)
    \/ UploadWrite(p)
    \/ UploadFootprint(p)
    \/ UploadInsert(p)
    \/ UploadLink(p)
    \/ UpdateCall(p)
    \/ UpdateWrite(p)
    \/ DeleteCall(p)
    \/ DeleteFiles(p)
    \/ DeleteRecord(p)
    \/ Return(p)

SpecUpdate == Init /\ [][NextUpdate]_vars

\* ------------------------------------------------------ rendition store, called twice
\* unlink of <sizeName>.webp in directory i: done, failed, or ENOENT
UnlinkOutcomes(d, i, sizeName) == IF sizeName \in FilesIn(d, i) THEN Outcomes ELSE {"missing"}

\* variant: ENOENT is reported as a failure
deleteCustomSizeImage_enoentFails(d, i, sizeName, fs) ==
  [disk |-> IF fs = "ok" THEN [d EXCEPT ![i].files[sizeName] = NoFile] ELSE d,
   result |-> IF fs = "ok" THEN "success" ELSE "failure"]

\* deleteCustomSizeImage: the store it leaves and what it returns; every
\* error is caught, ENOENT counts as success
deleteCustomSizeImage(d, i, sizeName, fs) ==
  [disk |-> IF fs = "ok" THEN [d EXCEPT ![i].files[sizeName] = NoFile] ELSE d,
   result |-> IF fs = "error" THEN "failure" ELSE "success"]

\* deleteImageFiles as a function: the store it leaves; it returns nothing
\* and every error is caught
deleteImageFilesResult(d, i, fs) ==
  [disk |-> IF fs = "ok" THEN RemoveDir(d, i) ELSE d, result |-> "success"]

\* the outcomes the filesystem allows for one call, and what the call does
StoreOutcomes(d, l) ==
  IF l.op = "deleteCustomSizeImage" THEN UnlinkOutcomes(d, l.imageId, l.name)
  ELSE IF d[l.imageId].dir THEN Outcomes ELSE {"missing"}

StoreApply(d, l, fs) ==
  IF l.op = "deleteCustomSizeImage" THEN deleteCustomSizeImage(d, l.imageId, l.name, fs)
  ELSE deleteImageFilesResult(d, l.imageId, fs)

\* the directory processImageUpload leaves for a file, and the same after
\* generateCustomSize of a custom size
UploadedDir(file) ==
  [dir |-> TRUE,
   files |-> [n \in SizeNames |-> IF n \in BuiltInNames
                                  THEN Transcode(file.w, file.h, IMAGE_SIZES[n])
                                  ELSE NoFile]]

WithCustomSize(dirState, sizeName, config) ==
  LET src == dirState.files["splash"]
  IN  [dirState EXCEPT !.files[sizeName] = Transcode(src.w, src.h, config)]

DirStates ==
  LET file == CHOOSE f \in Files : f.name = "a.jpg"
  IN  {EmptyDir, UploadedDir(file)}
        \cup {WithCustomSize(UploadedDir(file), n, c) : n \in CustomNames, c \in CustomConfigs}

\* every id has been handed out; a directory that is present was left
\* behind by a delete whose rm failed
InitStore ==
  /\ photo = {}
  /\ galleryPhoto = {}
  /\ setting = {}
  /\ disk \in [ImageIds -> DirStates]
  /\ nextImageId = MaxUploads + 1
  /\ nextPhotoId = MaxUploads + 1
  /\ pc = [p \in Procs |-> "idle"]
  /\ loc = [p \in Procs |-> [op |-> "idle"]]

\* a caller picks a store function and a target, to call it twice in a row
StoreCall(p) ==
  /\ Idle(p)
  /\ \E fn \in {"deleteCustomSizeImage", "deleteImageFiles"}, imageId \in ImageIds :
     \E sizeName \in IF fn = "deleteCustomSizeImage" THEN SizeNameInputs ELSE {""} :
          Goto(p, [op |-> fn, code |-> "", imageId |-> imageId, name |-> sizeName,
                   fs1 |-> "", result1 |-> "", after1 |-> disk,
                   fs2 |-> "", result2 |-> ""], "first")
  /\ UNCHANGED shared

StoreFirst(p) ==
  /\ pc[p] = "first"
  /\ \E fs \in StoreOutcomes(disk, loc[p]) :
       LET out == StoreApply(disk, loc[p], fs)
       IN  /\ disk' = out.disk
           /\ Goto(p, [loc[p] EXCEPT !.fs1 = fs, !.result1 = out.result,
                                     !.after1 = out.disk], "second")
  /\ UNCHANGED <<photo, galleryPhoto, setting, nextImageId, nextPhotoId>>

StoreSecond(p) ==
  /\ pc[p] = "second"
  /\ \E fs \in StoreOutcomes(disk, loc[p]) :
       LET out == StoreApply(disk, loc[p], fs)
       IN  /\ disk' = out.disk
           /\ Finish(p, [loc[p] EXCEPT !.fs2 = fs, !.result2 = out.result], "OK")
  /\ UNCHANGED <<photo, galleryPhoto, setting, nextImageId, nextPhotoId>>

NextStore ==
  \E p \in Procs :
    \/ StoreCall(p)
    \/ StoreFirst(p)
    \/ StoreSecond(p)
    \/ Return(p)

SpecStore == InitStore /\ [][NextStore]_vars

\* ------------------------------------------------------ transcoding on its own
\* widths and heights of decodable input images
Dims == {1, 2, 3, 80, 100, 133, 199, 200, 201, 600, 900, 1333, 2000, 3000, 4000}

\* the size configurations a transcode can be given: the built-in ones, the
\* proposable custom ones and the corners of imageSizeSchema
ResizeConfigs ==
  {IMAGE_SIZES[n] : n \in BuiltInNames} \cup CustomConfigs
    \cup {[width |-> 1, height |-> 1, quality |-> 1],
          [width |-> 1, height |-> 4000, quality |-> 50],
          [width |-> 4000, height |-> 4000, quality |-> 100]}

ResizeCall(p) ==
  /\ Idle(p)
  /\ \E w \in Dims, h \in Dims, config \in ResizeConfigs :
       Goto(p, [op |-> "transcode", code |-> "", w |-> w, h |-> h, config |-> config,
                out |-> NoFile], "toFile")
  /\ UNCHANGED shared

\* sharp(...).resize(width, height, {fit: 'inside', withoutEnlargement: true})
\* .webp({quality}).toFile(...)
ResizeRun(p) ==
  /\ pc[p] = "toFile"
  /\ Finish(p, [loc[p] EXCEPT !.out = Transcode(loc[p].w, loc[p].h, loc[p].config)], "OK")
  /\ UNCHANGED shared

NextResize ==
  \E p \in Procs :
    \/ ResizeCall(p)
    \/ ResizeRun(p)
    \/ Return(p)

SpecResize == Init /\ [][NextResize]_vars

\* ------------------------------------------------------ settings, two requests at once
RaceProcs == {1, 2}

\* the state after one successful upload by u1, with both request slots free
InitSizes ==
  LET file == CHOOSE f \in Files : f.name = "a.jpg"
      d == [i \in ImageIds |-> IF i = 1 THEN UploadedDir(file) ELSE EmptyDir]
  IN  /\ photo = {[id |-> 1, imageId |-> 1, userId |-> "u1",
                   assetFootprint |-> calculateAssetFootprint(d, 1),
                   meta |-> "m1", originalFilename |-> file.name, updatedAt |-> 0]}
      /\ galleryPhoto = {}
      /\ setting = {}
      /\ disk = d
      /\ nextImageId = 2
      /\ nextPhotoId = 2
      /\ pc = [p \in RaceProcs |-> "idle"]
      /\ loc = [p \in RaceProcs |-> [op |-> "idle"]]

\* addImageSize, deleteImageSize and getImageSizes requests, interleaved at
\* their awaits
NextSizes ==
  \E p \in RaceProcs :
    \/ AddSizeCall(p)
    \/ AddSizeInsert(p)
    \/ AddSizePhotos(p)
    \/ AddSizeGenerate(p)
    \/ DeleteSizeCall(p)
    \/ DeleteSizeRow(p)
    \/ DeleteSizeUnlink(p)
    \/ GetImageSizes(p)
    \/ Return(p)

SpecSizes == InitSizes /\ [][NextSizes]_vars

\* ------------------------------------------------------ regenerating one rendition
\* the directory of an uploaded photo with only the files named in names left
KeepOnly(dirState, names) ==
  [dirState EXCEPT !.files = [n \in SizeNames |-> IF n \in names THEN dirState.files[n]
                                                                ELSE NoFile]]

\* what readdir can find in a photo's directory: no directory, or any
\* subset of the built-in and custom rendition files (files go missing by
\* an upload that stopped in its write loop, by deleteSize, or by hand)
RegenDirStates ==
  LET full == CHOOSE s \in DirStates : \A n \in SizeNames : s.files[n] # NoFile
  IN  {EmptyDir} \cup {KeepOnly(full, names) : names \in SUBSET SizeNames}

InitRegen ==
  /\ photo = {}
  /\ galleryPhoto = {}
  /\ setting = {}
  /\ \E s \in RegenDirStates : disk = [i \in ImageIds |-> IF i = 1 THEN s ELSE EmptyDir]
  /\ nextImageId = MaxUploads + 1
  /\ nextPhotoId = MaxUploads + 1
  /\ pc = [p \in Procs |-> "idle"]
  /\ loc = [p \in Procs |-> [op |-> "idle"]]

\* generateCustomSize(imageId, sizeName, sizeConfig) up to readdir
RegenCall(p) ==
  /\ Idle(p)
  /\ \E imageId \in ImageIds, sizeName \in CustomNames, sizeConfig \in CustomConfigs :
       Goto(p, [op |-> "generateCustomSize", code |-> "", imageId |-> imageId,
                name |-> sizeName, config |-> sizeConfig,
                success |-> FALSE, source |-> ""], "regen")
  /\ UNCHANGED shared

\* the search through sizeOrder, the transcode and the returned result
RegenRun(p) ==
  /\ pc[p] = "regen"
  /\ LET l == loc[p] IN
       IF CanGenerate(disk, l.imageId)
       THEN /\ disk' = generateCustomSize(disk, l.imageId, l.name, l.config)
            /\ Finish(p, [l EXCEPT !.success = TRUE,
                                   !.source = SourceFile(disk, l.imageId)], "OK")
       ELSE /\ UNCHANGED disk
            /\ Finish(p, [l EXCEPT !.success = FALSE], "OK")
  /\ UNCHANGED <<photo, galleryPhoto, setting, nextImageId, nextPhotoId>>

NextRegen ==
  \E p \in Procs :
    \/ RegenCall(p)
    \/ RegenRun(p)
    \/ Return(p)

SpecRegen == InitRegen /\ [][NextRegen]_vars

\* ------------------------------------------------------ error messages
\* the message of the error raised inside the handler's try block, for a
\* call that ended with INTERNAL_SERVER_ERROR
thrownMessage(l) ==
  IF l.op = "upload"
  THEN IF ~l.file.header THEN "Invalid image file"
       ELSE IF l.todo # <<>> THEN "Input file contains unsupported image format"
       ELSE IF l.photoId = NoId THEN "SqliteError: disk I/O error"
       ELSE "SqliteError: FOREIGN KEY constraint failed"
  ELSE IF l.op = "addSize" THEN "SqliteError: UNIQUE constraint failed: setting.key"
  ELSE "SqliteError: disk I/O error"

\* the message of the ActionError the caller receives from a call that
\* ended with a code other than OK
actionErrorMessage(l) ==
  IF l.op = "upload"
  THEN IF l.code = "BAD_REQUEST"
       THEN IF l.file.type \notin allowedTypes
            THEN "Invalid file type. Only JPEG, PNG, and WebP images are allowed."
            ELSE "File size too large. Maximum size is 10MB."
       ELSE thrownMessage(l)
  ELSE IF l.op = "update"
  THEN IF l.code = "NOT_FOUND" THEN "Photo not found" ELSE "Failed to update photo"
  ELSE IF l.op = "delete"
  THEN IF l.code = "NOT_FOUND" THEN "Photo not found" ELSE "Failed to delete photo"
  ELSE IF l.op = "addSize"
  THEN IF l.code = "BAD_REQUEST"
       THEN IF l.name \in BuiltInNames THEN "Size name already exists in default sizes"
                                       ELSE "Size name already exists in custom sizes"
       ELSE "Failed to add image size"
  ELSE IF l.op = "deleteSize"
  THEN IF l.code = "BAD_REQUEST" THEN "Cannot delete default image sizes"
       ELSE IF l.code = "NOT_FOUND" THEN "Custom size not found"
       ELSE "Failed to delete image size"
  ELSE ""

\* ------------------------------------------------------ update racing with delete
\* update and delete requests on two slots, interleaved at their awaits,
\* starting from the state after one successful upload
NextUpdateRace ==
  \E p \in RaceProcs :
    \/ UpdateCall(p)
    \/ UpdateWrite(p)
    \/ DeleteCall(p)
    \/ DeleteFiles(p)
    \/ DeleteRecord(p)
    \/ Return(p)

SpecUpdateRace == InitSizes /\ [][NextUpdateRace]_vars

\* ------------------------------------------------------ photos.addToGallery
\* the select of MAX(sortOrder), with (max || 0) + 1
AddToGalleryCall(p) ==
  /\ Idle(p)
  /\ \E photoId \in PhotoIds, galleryId \in GalleryInputs \ {""} :
       Goto(p, [op |-> "addToGallery", code |-> "", photoId |-> photoId,
                galleryId |-> galleryId,
                nextSortOrder |-> MaxSortOrder(galleryId) + 1], "galleryInsert")
  /\ UNCHANGED shared

\* db.insert(galleryPhoto).values({photoId, galleryId, sortOrder}): the
\* table has the two foreign keys and no unique index on (galleryId, photoId)
AddToGalleryInsert(p) ==
  /\ pc[p] = "galleryInsert"
  /\ LET l == loc[p] IN
       IF ForeignKeysHold(l.photoId, l.galleryId)
       THEN /\ Cardinality(galleryPhoto) < MaxRows
            /\ l.nextSortOrder <= MaxOrder
            /\ galleryPhoto' = galleryPhoto \cup
                 {[id |-> FreshRowId, galleryId |-> l.galleryId,
                   photoId |-> l.photoId, sortOrder |-> l.nextSortOrder]}
            /\ Finish(p, l, "OK")
       ELSE /\ Finish(p, l, "INTERNAL_SERVER_ERROR")
            /\ UNCHANGED galleryPhoto
  /\ UNCHANGED <<photo, setting, disk, nextImageId, nextPhotoId>>

\* ------------------------------------------------------ photos.removeFromGallery
\* DELETE FROM galleryPhoto WHERE photoId = ... AND galleryId = ...
RemoveFromGallery(p) ==
  /\ Idle(p)
  /\ \E photoId \in PhotoIds, galleryId \in GalleryInputs \ {""}, db \in Outcomes :
       LET l == [op |-> "removeFromGallery", code |-> "", photoId |-> photoId,
                 galleryId |-> galleryId]
       IN  IF db = "ok"
           THEN /\ galleryPhoto' = {g \in galleryPhoto :
                                      ~(g.photoId = photoId /\ g.galleryId = galleryId)}
                /\ Finish(p, l, "OK")
           ELSE /\ Finish(p, l, "INTERNAL_SERVER_ERROR")
                /\ UNCHANGED galleryPhoto
  /\ UNCHANGED <<photo, setting, disk, nextImageId, nextPhotoId>>

\* ------------------------------------------------------ gallery membership
\* upload, addToGallery, bulkAddToGallery and removeFromGallery requests on
\* two slots, interleaved at their awaits, starting from the state after one
\* successful upload
NextGallery ==
  \E p \in RaceProcs :
    \/ UploadCall(p)
    \/ UploadWrite(p)
    \/ UploadFootprint(p)
    \/ UploadInsert(p)
    \/ UploadLink(p)
    \/ AddToGalleryCall(p)
    \/ AddToGalleryInsert(p)
    \/ BulkAddCall(p)
    \/ BulkAddExisting(p)
    \/ BulkAddMax(p)
    \/ BulkAddInsert(p)
    \/ RemoveFromGallery(p)
    \/ Return(p)

SpecGallery == InitSizes /\ [][NextGallery]_vars

\* ------------------------------------------------------ addSize, then deleteSize
\* every photo of the owner has a built-in rendition and no file of this name
CanRoundTrip(user, name) ==
  \A i \in UserImageIds(user) :
    /\ disk[i].dir
    /\ FilesIn(disk, i) \cap BuiltInNames # {}
    /\ name \notin FilesIn(disk, i)

\* a client starts addImageSize with processExisting = true, remembering
\* the registry and the rendition store it saw (before); the handler's
\* checks are those of AddSizeCall
RoundTripAddCall(p) ==
  /\ Idle(p)
  /\ \E user \in Users, name \in CustomNames, config \in CustomConfigs :
       LET l == [op |-> "addSize", code |-> "", user |-> user, name |-> name,
                 config |-> config, flag |-> TRUE, photoCount |-> 0,
                 todo |-> <<>>, ran |-> FALSE, okCount |-> 0, failed |-> 0,
                 before |-> [setting |-> setting, disk |-> disk]]
       IN  /\ CanRoundTrip(user, name)
           /\ IF name \in BuiltInNames \/ CustomSizeRows(user, name) # {}
              THEN Finish(p, l, "BAD_REQUEST")
              ELSE Goto(p, l, "sizeInsert")
  /\ UNCHANGED shared

\* on the success of that call the client starts deleteImageSize with the
\* same name and deleteExistingImages = true; the handler's checks are
\* those of DeleteSizeCall
RoundTripDeleteCall(p) ==
  /\ pc[p] = "done"
  /\ loc[p].op = "addSize"
  /\ loc[p].code = "OK"
  /\ LET l == [op |-> "deleteSize", code |-> "", user |-> loc[p].user,
               name |-> loc[p].name, flag |-> TRUE, photoCount |-> 0,
               todo |-> <<>>, ran |-> FALSE, okCount |-> 0, failed |-> 0,
               before |-> loc[p].before]
     IN  IF l.name \in BuiltInNames
         THEN Finish(p, l, "BAD_REQUEST")
         ELSE IF CustomSizeRows(l.user, l.name) = {}
              THEN Finish(p, l, "NOT_FOUND")
              ELSE Goto(p, l, "sizeDelete")
  /\ UNCHANGED shared

\* uploads, and clients that add a size and delete it again
NextRoundTrip ==
  \E p \in Procs :
    \/ UploadCall(p)
    \/ UploadWrite(p)
    \/ UploadFootprint(p)
    \/ UploadInsert(p)
    \/ UploadLink(p)
    \/ RoundTripAddCall(p)
    \/ AddSizeInsert(p)
    \/ AddSizePhotos(p)
    \/ AddSizeGenerate(p)
    \/ RoundTripDeleteCall(p)
    \/ DeleteSizeRow(p)
    \/ DeleteSizeUnlink(p)
    \/ Return(p)

SpecRoundTrip == Init /\ [][NextRoundTrip]_vars

\* ====================================================== properties
RecordsOf(ph, i) == {r \in ph : r.imageId = i}

Done(p, op) == pc[p] = "done" /\ loc[p].op = op

\* ------------------------------------------------------ C1
\* C1: after every completed upload, delete or bulkDelete call, failed or
\* not, a Photo record with imageId i exists if and only if the directory
\* of i exists.
C1_RecordIffDirectory ==
  \A p \in Procs :
    (pc[p] = "done" /\ loc[p].op \in {"upload", "delete", "bulkDelete"})
      => \A i \in ImageIds : (RecordsOf(photo, i) # {}) <=> disk[i].dir

\* ------------------------------------------------------ C2
\* C2: a Photo record appears only after all initial renditions are on
\* disk: while an upload still has a rendition write, the footprint or the
\* insert before it, no record with its imageId exists; and in the step
\* that inserts the record of imageId i, every built-in rendition file of i
\* is on disk and the record carries the footprint computed from them.
C2_RecordOnlyAfterRenditions ==
  /\ [](\A p \in Procs :
          (loc[p].op = "upload" /\ pc[p] \in {"write", "footprint", "insert"})
            => RecordsOf(photo, loc[p].imageId) = {})
  /\ [][\A i \in ImageIds :
          (RecordsOf(photo, i) = {} /\ RecordsOf(photo', i) # {})
            => /\ BuiltInNames \subseteq FilesIn(disk, i)
               /\ \E p \in Procs : /\ loc[p].op = "upload" /\ loc[p].imageId = i
                                    /\ pc[p] = "insert" /\ loc[p].todo = <<>>
               /\ \A r \in RecordsOf(photo', i) :
                    r.assetFootprint = calculateAssetFootprint(disk, i)]_vars

C2_Witness ==
  \E p \in Procs : /\ loc[p].op = "upload" /\ pc[p] = "link"
                   /\ RecordsOf(photo, loc[p].imageId) # {}

\* ------------------------------------------------------ C3
Rejected(file) ==
  \/ file.type \notin allowedTypes
  \/ file.size > maxSize
  \/ ~file.header
  \/ ~file.pixels

\* C3: an upload whose MIME type is not allowed, whose file is larger than
\* 10 MiB or whose image cannot be decoded fails and leaves no directory,
\* no rendition file, no Photo record and no membership row.
C3_RejectedUploadChangesNothing ==
  \A p \in Procs :
    (Done(p, "upload") /\ Rejected(loc[p].file))
      => /\ loc[p].code # "OK"
         /\ loc[p].photoId = NoId
         /\ loc[p].imageId # NoId =>
              /\ ~disk[loc[p].imageId].dir
              /\ FilesIn(disk, loc[p].imageId) = {}
              /\ RecordsOf(photo, loc[p].imageId) = {}

\* ------------------------------------------------------ C4
CustomNamesOf(user) ==
  {r.key : r \in {x \in setting : x.userId = user /\ x.category = "image_sizes"}}

\* C4: after a successful upload the photo's directory holds a rendition
\* file for each of the six built-in sizes and for each custom size of the
\* uploading owner, and no other file.
C4_AllRegistrySizesWritten ==
  \A p \in Procs :
    (Done(p, "upload") /\ loc[p].code = "OK")
      => FilesIn(disk, loc[p].imageId) = BuiltInNames \cup CustomNamesOf(loc[p].user)

\* ------------------------------------------------------ C5
\* the renditions an upload has written so far, and their byte sizes
WrittenNames(l) == Range(ImageSizeEntries) \ Range(l.todo)

RECURSIVE WrittenBytes(_, _)
WrittenBytes(l, names) ==
  IF names = {} THEN 0
  ELSE LET n == CHOOSE x \in names : TRUE
       IN  Transcode(l.file.w, l.file.h, IMAGE_SIZES[n]).bytes
             + WrittenBytes(l, names \ {n})

PhotoRows(ph, id) == {r \in ph : r.id = id}
RowsOfPhoto(gp, id) == {g \in gp : g.photoId = id}

\* C6: after delete(id) succeeds on an existing photo the Photo record is
\* gone, its rendition directory is gone and no membership row references
\* the photo; for an unknown id delete fails with NOT_FOUND.
C6_DeleteRemovesEverything ==
  \A p \in Procs :
    Done(p, "delete") =>
      /\ loc[p].code = "OK" =>
           /\ PhotoRows(photo, loc[p].id) = {}
           /\ ~disk[loc[p].imageId].dir
           /\ RowsOfPhoto(galleryPhoto, loc[p].id) = {}
      /\ loc[p].code = "NOT_FOUND" => PhotoRows(photo, loc[p].id) = {}

\* C6 as amended: after delete(id) succeeds the Photo record is gone and no
\* membership row references the photo; the directory is gone unless its
\* removal failed (the error is swallowed).  The removal of the files is
\* attempted before the record is deleted.  For an unknown id, and only
\* then, delete fails with NOT_FOUND, and that call changes nothing.
C6_DeleteAmended ==
  /\ [](\A p \in Procs :
          /\ (Done(p, "delete") /\ loc[p].code = "OK") =>
               /\ PhotoRows(photo, loc[p].id) = {}
               /\ RowsOfPhoto(galleryPhoto, loc[p].id) = {}
               /\ loc[p].fs # "error" =>
                    ~disk[loc[p].imageId].dir /\ FilesIn(disk, loc[p].imageId) = {}
          /\ (loc[p].op = "delete" /\ pc[p] = "rm") => PhotoRows(photo, loc[p].id) # {})
  /\ [][\A p \in Procs :
          /\ (loc[p].op = "delete" /\ PhotoRows(photo, loc[p].id) # {}
                /\ PhotoRows(photo', loc[p].id) = {})
               => pc[p] = "dbdelete" /\ loc[p].fs \in {"ok", "error", "missing"}
          /\ (pc[p] = "idle" /\ loc'[p].op = "delete")
               => /\ (loc'[p].code = "NOT_FOUND") <=> (PhotoRows(photo, loc'[p].id) = {})
                  /\ loc'[p].code = "NOT_FOUND" =>
                       pc'[p] = "done" /\ UNCHANGED <<photo, galleryPhoto, setting, disk>>]_vars

C6_Witness ==
  \E p \in Procs :
    /\ Done(p, "delete") /\ loc[p].code = "OK" /\ loc[p].fs = "error"
    /\ disk[loc[p].imageId].dir

\* ------------------------------------------------------ C7
\* C7: a failing or empty file deletion never blocks the record deletion.
\* A delete whose directory was missing or whose removal failed still
\* issues the db delete, and succeeds and has removed the record whenever
\* the db delete itself did not fail; in bulkDelete such a photo is removed
\* and listed under deleted, not under failed.
C7_FileFailureNeverBlocks ==
  \A p \in Procs :
    /\ (Done(p, "delete") /\ loc[p].fs \in {"error", "missing"}) =>
         /\ loc[p].db \in Outcomes
         /\ loc[p].db = "ok" => loc[p].code = "OK" /\ PhotoRows(photo, loc[p].id) = {}
    /\ (loc[p].op = "delete" /\ loc[p].fs # "") => pc[p] \in {"dbdelete", "done"}
    /\ (Done(p, "bulkDelete") /\ loc[p].code = "OK") =>
         \A id \in loc[p].fsBad \ loc[p].dbBad :
           /\ id \in Range(loc[p].deleted)
           /\ id \notin Range(loc[p].failed)
           /\ PhotoRows(photo, id) = {}

C7_Witness ==
  \E p \in Procs :
    /\ Done(p, "bulkDelete") /\ loc[p].code = "OK"
    /\ loc[p].fsBad # {} /\ loc[p].dbBad = {}
    /\ Len(loc[p].deleted) = 2
    /\ \E i \in ImageIds : disk[i].dir /\ RecordsOf(photo, i) = {}

\* ------------------------------------------------------ C8
\* C8: a bulkDelete call in which at least one id resolves to no photo
\* fails with NOT_FOUND in its first step and removes no rendition file and
\* no Photo record.
C8_BulkDeleteAllOrNothingCheck ==
  [][\A p \in Procs :
       (/\ pc[p] = "idle"
        /\ loc'[p].op = "bulkDelete"
        /\ \E k \in DOMAIN loc'[p].ids : PhotoRows(photo, loc'[p].ids[k]) = {})
         => /\ pc'[p] = "done"
            /\ loc'[p].code = "NOT_FOUND"
            /\ UNCHANGED <<photo, galleryPhoto, setting, disk>>]_vars

C8_Witness ==
  \E p \in Procs :
    /\ Done(p, "bulkDelete") /\ loc[p].code = "NOT_FOUND"
    /\ \E a, b \in Range(loc[p].ids) :
         /\ PhotoRows(photo, a) = {}
         /\ \E r \in PhotoRows(photo, b) : disk[r.imageId].dir

\* ------------------------------------------------------ C9
NoDuplicates(s) == \A a, b \in DOMAIN s : a # b => s[a] # s[b]

\* C9: in bulkDelete, in the addSize backfill and in the deleteSize cleanup
\* every item is attempted exactly once and a failing item does not stop
\* the loop: at every point of the loop successes + failures + items still
\* to do = N, and at the end nothing is left to do.  For bulkDelete,
\* deleted and failed are disjoint, hold no id twice, together are the set
\* of input ids, and total = N.
C9_BatchPartition ==
  \A p \in Procs :
    /\ (loc[p].op = "bulkDelete" /\ loc[p].code # "NOT_FOUND") =>
         LET l == loc[p]
             rest == {l.todo[k].id : k \in DOMAIN l.todo}
         IN  /\ Len(l.deleted) + Len(l.failed) + Len(l.todo) = Len(l.ids)
             /\ NoDuplicates(l.deleted) /\ NoDuplicates(l.failed) /\ NoDuplicates(l.todo)
             /\ Range(l.deleted) \cap Range(l.failed) = {}
             /\ Range(l.deleted) \cup Range(l.failed) \cup rest = Range(l.ids)
             /\ pc[p] = "done" => l.todo = <<>> /\ l.total = Len(l.ids)
    /\ (loc[p].op \in {"addSize", "deleteSize"} /\ loc[p].ran) =>
         LET l == loc[p]
         IN  /\ l.okCount + l.failed + Len(l.todo) = l.photoCount
             /\ l.photoCount = Cardinality(UserImageIds(l.user))
             /\ NoDuplicates(l.todo)
             /\ pc[p] = "done" => l.todo = <<>>

C9_Witness ==
  \E p \in Procs :
    /\ loc[p].op = "bulkDelete" /\ pc[p] = "bulkRm"
    /\ Len(loc[p].failed) = 1 /\ Len(loc[p].todo) = 1

\* ------------------------------------------------------ C10
Linked(gp, galleryId, id) == \E g \in gp : g.galleryId = galleryId /\ g.photoId = id

\* C10: a bulkAddToGallery call that returns has inserted one membership
\* row for each requested photo not yet linked to the target gallery and no
\* other row, removed none, and reports added = that number and
\* added + skipped = N; afterwards every requested photo is linked, so a
\* second call with the same arguments inserts nothing and reports
\* added = 0, skipped = N.
C10_BulkAddSkipsLinked ==
  /\ [](\A p \in Procs :
          (Done(p, "bulkAddToGallery") /\ loc[p].code = "OK") =>
            /\ \A id \in Range(loc[p].ids) : Linked(galleryPhoto, loc[p].galleryId, id)
            /\ loc[p].added + loc[p].skipped = Len(loc[p].ids))
  /\ [][\A p \in Procs :
          (/\ loc'[p].op = "bulkAddToGallery"
           /\ pc[p] # "done" /\ pc'[p] = "done" /\ loc'[p].code = "OK")
            => LET l == loc'[p]
                   fresh == {id \in Range(l.ids) : ~Linked(galleryPhoto, l.galleryId, id)}
                   new == galleryPhoto' \ galleryPhoto
               IN  /\ galleryPhoto \subseteq galleryPhoto'
                   /\ {g.photoId : g \in new} = fresh
                   /\ \A g \in new : g.galleryId = l.galleryId
                   /\ Cardinality(new) = Cardinality(fresh)
                   /\ l.added = Cardinality(fresh)
                   /\ l.skipped = Len(l.ids) - Cardinality(fresh)]_vars

C10_Witness ==
  \E p \in Procs :
    /\ Done(p, "bulkAddToGallery") /\ loc[p].code = "OK"
    /\ loc[p].added = 1 /\ loc[p].skipped = 1

\* ------------------------------------------------------ C11
\* the caller's stored custom sizes with this name, read from the table
StoredFor(st, user, name) ==
  {r \in st : r.userId = user /\ r.category = "image_sizes" /\ r.key = name}

\* C11: addSize with a name equal to a built-in name, or equal to a custom
\* size already stored for the same owner, fails in its first step with
\* BAD_REQUEST and writes nothing: no setting row, no Photo record, no
\* membership row and no rendition file changes, also when processExisting
\* is true.
C11_NameCollisionRejected ==
  [][\A p \in Procs :
       (/\ pc[p] = "idle"
        /\ loc'[p].op = "addSize"
        /\ \/ loc'[p].name \in BuiltInNames
           \/ StoredFor(setting, loc'[p].user, loc'[p].name) # {})
         => /\ pc'[p] = "done"
            /\ loc'[p].code = "BAD_REQUEST"
            /\ UNCHANGED <<photo, galleryPhoto, setting, disk>>]_vars

C11_Witness ==
  \E p \in Procs :
    /\ Done(p, "addSize") /\ loc[p].code = "BAD_REQUEST" /\ loc[p].flag
    /\ loc[p].name \in CustomNames
    /\ StoredFor(setting, loc[p].user, loc[p].name) # {}
    /\ \E r \in photo : r.userId = loc[p].user /\ disk[r.imageId].dir

\* ------------------------------------------------------ C12
\* imageIds of the photos a user owns, read from the table
OwnedImageIds(ph, user) == {r.imageId : r \in {x \in ph : x.userId = user}}

\* C12: addSize with processExisting = true processes exactly the caller's
\* photos.  When it returns, processed + failed is the number of photos the
\* caller owns and at least `processed` of them hold a file named after the
\* new size; each step that counts a photo as processed has just written
\* that file, transcoded from the largest rendition present, into the
\* directory of one of the caller's photos; a step that counts a failure
\* writes nothing; and no step of the call changes a directory that does
\* not belong to a photo of the caller.
C12_BackfillOnlyCallersPhotos ==
  /\ [](\A p \in Procs :
          (Done(p, "addSize") /\ loc[p].code = "OK" /\ loc[p].flag) =>
            LET l == loc[p]
                own == OwnedImageIds(photo, l.user)
            IN  /\ l.okCount + l.failed = Cardinality(own)
                /\ l.okCount <= Cardinality({i \in own : l.name \in FilesIn(disk, i)}))
  /\ [][\A p \in Procs :
          (loc[p].op = "addSize" /\ loc'[p].op = "addSize") =>
            LET l == loc[p]
                own == OwnedImageIds(photo, l.user)
            IN  /\ \A i \in ImageIds \ own : disk'[i] = disk[i]
                /\ loc'[p].okCount = l.okCount + 1 =>
                     LET i == Head(l.todo)
                         src == disk[i].files[SourceFile(disk, i)]
                     IN  /\ i \in own
                         /\ l.flag
                         /\ disk'[i].files[l.name] = Transcode(src.w, src.h, l.config)
                         /\ disk'[i].files[l.name] # NoFile
                         /\ \A j \in ImageIds \ {i} : disk'[j] = disk[j]
                /\ loc'[p].failed = l.failed + 1 => disk' = disk]_vars

C12_Witness ==
  \E p \in Procs :
    /\ Done(p, "addSize") /\ loc[p].code = "OK" /\ loc[p].flag
    /\ loc[p].okCount = 1
    /\ \E r \in photo : /\ r.userId # loc[p].user
                        /\ disk[r.imageId].dir
                        /\ loc[p].name \notin FilesIn(disk, r.imageId)

\* ------------------------------------------------------ C13
\* the built-in rendition files of every directory
BuiltInFiles(d) == [i \in ImageIds |-> [n \in BuiltInNames |-> d[i].files[n]]]

C14_DeleteSizeCleansAll ==
  \A p \in Procs :
    (Done(p, "deleteSize") /\ loc[p].code = "OK" /\ loc[p].flag) =>
      LET l == loc[p]
          own == OwnedImageIds(photo, l.user)
      IN  /\ StoredFor(setting, l.user, l.name) = {}
          /\ \A i \in own : l.name \notin FilesIn(disk, i)
          /\ l.okCount + l.failed = Cardinality(own)

\* C14 as amended: after deleteSize(name, true) succeeds the setting row is
\* gone and deleted + failed is the number of the caller's photos; the file
\* name.webp remains under at most `failed` of the caller's directories,
\* so under none when failed = 0.  A step that counts a photo as deleted
\* leaves that photo without the file, whether it had one or not; a photo
\* without the file is always counted as deleted; a step that counts a
\* failure changes nothing; and no step touches another file or another
\* user's directory.
C14_DeleteSizeAmended ==
  /\ [](\A p \in Procs :
          (Done(p, "deleteSize") /\ loc[p].code = "OK" /\ loc[p].flag) =>
            LET l == loc[p]
                own == OwnedImageIds(photo, l.user)
            IN  /\ StoredFor(setting, l.user, l.name) = {}
                /\ l.okCount + l.failed = Cardinality(own)
                /\ Cardinality({i \in own : l.name \in FilesIn(disk, i)}) <= l.failed)
  /\ [][\A p \in Procs :
          (loc[p].op = "deleteSize" /\ loc'[p].op = "deleteSize"
             /\ pc[p] = "sizeUnlink") =>
            LET l == loc[p]
                i == Head(l.todo)
            IN  /\ i \in OwnedImageIds(photo, l.user)
                /\ \/ /\ loc'[p].okCount = l.okCount + 1 /\ loc'[p].failed = l.failed
                      /\ disk' = [disk EXCEPT ![i].files[l.name] = NoFile]
                   \/ /\ loc'[p].failed = l.failed + 1 /\ loc'[p].okCount = l.okCount
                      /\ l.name \in FilesIn(disk, i)
                      /\ disk' = disk]_vars

C14_Witness ==
  \E p \in Procs :
    /\ Done(p, "deleteSize") /\ loc[p].code = "OK" /\ loc[p].flag
    /\ loc[p].okCount = 1 /\ loc[p].failed = 1
    /\ \E i \in OwnedImageIds(photo, loc[p].user) : loc[p].name \in FilesIn(disk, i)

\* ------------------------------------------------------ C15
\* membership rows of a gallery
RowsOfGallery(gp, galleryId) == {g \in gp : g.galleryId = galleryId}

\* C15: the membership row an upload with a galleryId inserts has a
\* sortOrder strictly greater than the sortOrder of every membership row
\* already in that gallery.
C15_UploadTakesNextSlot ==
  [][\A p \in Procs :
       (loc[p].op = "upload" /\ pc[p] = "link") =>
         \A new \in galleryPhoto' \ galleryPhoto :
           \A old \in RowsOfGallery(galleryPhoto, new.galleryId) :
             new.sortOrder > old.sortOrder]_vars

\* ------------------------------------------------------ C16
\* the fields update may write
MetadataFields == {"meta", "updatedAt"}

\* r2 is r1 up to the fields update may write
SameButMetadata(r1, r2) ==
  \A f \in DOMAIN r1 \ MetadataFields : r2[f] = r1[f]

\* C16: every step of an update call leaves every membership row, every
\* setting row and the whole rendition store unchanged, keeps the set of
\* photo ids, leaves every record other than the addressed one unchanged
\* and changes at most title/description/tags and the update timestamp of
\* the addressed record (imageId, originalFilename, assetFootprint and
\* owner stay); a successful update stores the metadata it was given and
\* does not move the timestamp back.  For an unknown id update fails with
\* NOT_FOUND in its first step and changes nothing.
C16_UpdateFrame ==
  [][\A p \in Procs :
       (loc'[p].op = "update" /\ pc'[p] # "idle") =>
         LET l == loc'[p] IN
         /\ UNCHANGED <<galleryPhoto, setting, disk>>
         /\ {r.id : r \in photo'} = {r.id : r \in photo}
         /\ \A r \in photo : r.id # l.id => r \in photo'
         /\ \A r \in PhotoRows(photo, l.id) : \A r2 \in PhotoRows(photo', l.id) :
              /\ SameButMetadata(r, r2)
              /\ r2.updatedAt >= r.updatedAt
              /\ (pc[p] = "dbupdate" /\ l.code = "OK") => r2.meta = l.meta
              /\ l.code # "OK" => r2 = r
         /\ (pc[p] = "idle" /\ PhotoRows(photo, l.id) = {}) =>
              pc'[p] = "done" /\ l.code = "NOT_FOUND" /\ photo' = photo]_vars

C16_Witness ==
  \E p \in Procs :
    /\ Done(p, "update") /\ loc[p].code = "OK"
    /\ \E r \in PhotoRows(photo, loc[p].id) :
         /\ r.meta = "m2" /\ r.updatedAt = 1
         /\ RowsOfPhoto(galleryPhoto, r.id) # {}
         /\ disk[r.imageId].dir
    /\ \E r \in photo : r.id # loc[p].id /\ r.meta = "m1"

\* ------------------------------------------------------ C17
TwiceDone(p) ==
  pc[p] = "done" /\ loc[p].op \in {"deleteCustomSizeImage", "deleteImageFiles"}

\* C17: deleteCustomSizeImage called twice in a row on the same (imageId,
\* sizeName), or deleteImageFiles twice in a row on the same imageId: both
\* calls report success and the state after the second call equals the
\* state after the first.
C17_DeleteTwiceSame ==
  \A p \in Procs :
    TwiceDone(p) =>
      /\ loc[p].result1 = "success"
      /\ loc[p].result2 = "success"
      /\ disk = loc[p].after1

\* C17 as amended: neither function raises, and deleteImageFiles never
\* reports a failure.  A call that finds its target absent reports success
\* and changes nothing, so when the first call removed the target or found
\* it absent, the second call reports success and the state after it equals
\* the state after the first.  A call reports a failure only when it is
\* deleteCustomSizeImage and its unlink failed with an error other than
\* ENOENT, and a failed removal of either kind leaves the store as it was.
C17_DeleteTwiceAmended ==
  \A p \in Procs :
    /\ (loc[p].op \in {"deleteCustomSizeImage", "deleteImageFiles"}
          /\ pc[p] \in {"second", "done"}) =>
         LET l == loc[p] IN
         /\ l.result1 \in {"success", "failure"}
         /\ l.result1 = "failure" =>
              /\ l.op = "deleteCustomSizeImage" /\ l.fs1 = "error"
              /\ l.name \in FilesIn(l.after1, l.imageId)
         /\ l.fs1 # "error" =>
              /\ l.result1 = "success"
              /\ IF l.op = "deleteCustomSizeImage"
                 THEN l.name \notin FilesIn(l.after1, l.imageId)
                 ELSE ~l.after1[l.imageId].dir /\ FilesIn(l.after1, l.imageId) = {}
    /\ TwiceDone(p) =>
         LET l == loc[p] IN
         /\ l.result2 \in {"success", "failure"}
         /\ l.op = "deleteImageFiles" => l.result2 = "success"
         /\ l.fs1 # "error" =>
              /\ l.fs2 = "missing"
              /\ l.result2 = "success"
              /\ disk = l.after1
         /\ l.fs2 = "error" => disk = l.after1
         /\ l.result2 = "failure" => l.op = "deleteCustomSizeImage" /\ l.fs2 = "error"

C17_Witness ==
  \E p \in Procs :
    /\ TwiceDone(p) /\ loc[p].op = "deleteCustomSizeImage"
    /\ loc[p].fs1 = "ok" /\ loc[p].result1 = "success"
    /\ loc[p].fs2 = "missing" /\ loc[p].result2 = "success"
    /\ disk = loc[p].after1
    /\ disk[loc[p].imageId].dir

\* ------------------------------------------------------ C18
Abs(n) == IF n < 0 THEN 0 - n ELSE n

\* out keeps the aspect ratio of w x h within rounding: the image is
\* unchanged, or one dimension is the box's and the other is less than one
\* pixel away from the exactly proportional value
AspectWithinRounding(w, h, config, out) ==
  LET cross == Abs(out.w * h - out.h * w)
  IN  \/ out.w = w /\ out.h = h
      \/ out.w = config.width /\ cross < w
      \/ out.h = config.height /\ cross < h

\* C18: for every decodable input and every size configuration the
\* rendition is at least 1 x 1, has width <= config.width and height <=
\* config.height, has no dimension larger than the input's, and keeps the
\* input's aspect ratio within rounding; an input that fits the box is not
\* resized; a 3000 x 2000 input gives a 200 x 133 thumbnail and a
\* 2000 x 1333 splash.
C18_FitInside ==
  /\ \A p \in Procs :
       (pc[p] = "done" /\ loc[p].op = "transcode") =>
         LET l == loc[p] IN
         /\ l.out.w >= 1 /\ l.out.h >= 1
         /\ l.out.w <= l.config.width /\ l.out.h <= l.config.height
         /\ l.out.w <= l.w /\ l.out.h <= l.h
         /\ AspectWithinRounding(l.w, l.h, l.config, l.out)
         /\ (l.w <= l.config.width /\ l.h <= l.config.height) =>
              l.out.w = l.w /\ l.out.h = l.h
  /\ LET t == Transcode(3000, 2000, IMAGE_SIZES["thumbnail"])
         s == Transcode(3000, 2000, IMAGE_SIZES["splash"])
     IN  t.w = 200 /\ t.h = 133 /\ s.w = 2000 /\ s.h = 1333

C18_Witness ==
  \E p \in Procs :
    /\ pc[p] = "done" /\ loc[p].op = "transcode"
    /\ loc[p].w = 3000 /\ loc[p].h = 2000
    /\ loc[p].config = IMAGE_SIZES["thumbnail"]
    /\ loc[p].out.w = 200 /\ loc[p].out.h = 133

\* ------------------------------------------------------ C19
\* an addSize request that has inserted its setting row and has not failed
Persisted(p) ==
  /\ loc[p].op = "addSize"
  /\ \/ pc[p] \in {"sizePhotos", "sizeGenerate"}
     \/ pc[p] = "done" /\ loc[p].code = "OK"

\* C19: under every interleaving of addSize and deleteSize requests the
\* stored custom sizes of an owner hold no two rows with the same name and
\* no row with a built-in name; and of two addSize requests with the same
\* name that are in flight or unanswered together, at most one has
\* inserted its row and goes on to report success.
C19_NoDuplicateSizeNames ==
  /\ \A r1, r2 \in setting :
       (r1.category = "image_sizes" /\ r2.category = "image_sizes"
          /\ r1.userId = r2.userId /\ r1.key = r2.key) => r1 = r2
  /\ \A r \in setting : r.key \notin BuiltInNames
  /\ \A p, q \in RaceProcs :
       (p # q /\ Persisted(p) /\ Persisted(q)) => loc[p].name # loc[q].name

\* C19 as amended: under every interleaving of addSize and deleteSize
\* requests no two setting rows carry the same name (for one owner or for
\* different owners) and none carries a built-in name.  The insert of an
\* addSize request succeeds only when no row with its name is stored, and
\* adds exactly one row; when a row with its name is stored, the insert
\* fails with INTERNAL_SERVER_ERROR and writes nothing.  So of two racing
\* addSize requests with the same name the second to insert fails, unless a
\* deleteSize request has removed the first one's row in between.
C19_NoDuplicateAmended ==
  /\ [](/\ \A r1, r2 \in setting : r1.key = r2.key => r1 = r2
        /\ \A r \in setting : r.key \notin BuiltInNames)
  /\ [][\A p \in RaceProcs :
          (pc[p] = "sizeInsert" /\ pc'[p] # "sizeInsert") =>
            IF \E r \in setting : r.key = loc[p].name
            THEN /\ pc'[p] = "done" /\ loc'[p].code = "INTERNAL_SERVER_ERROR"
                 /\ setting' = setting
            ELSE /\ pc'[p] = "sizePhotos"
                 /\ setting \subseteq setting'
                 /\ Cardinality(setting' \ setting) = 1
                 /\ \A r \in setting' \ setting :
                      r.key = loc[p].name /\ r.userId = loc[p].user]_vars

C19_Witness ==
  \E p, q \in RaceProcs :
    /\ p # q
    /\ loc[p].op = "addSize" /\ loc[q].op = "addSize"
    /\ loc[p].name = loc[q].name /\ loc[p].user = loc[q].user
    /\ pc[p] = "sizePhotos"
    /\ pc[q] = "done" /\ loc[q].code = "INTERNAL_SERVER_ERROR"
    /\ Cardinality(StoredFor(setting, loc[p].user, loc[p].name)) = 1

\* ------------------------------------------------------ C20
\* C20: bulkDelete and bulkAddToGallery raise only when the existence
\* precondition fails: a call whose input list holds only ids of existing
\* photos, whatever the multiplicity of the ids, does not fail with
\* NOT_FOUND in its first step, and no bulk call ever ends with another
\* error.
C20_BulkRaisesOnlyOnPrecondition ==
  /\ [](\A p \in Procs :
          loc[p].op \in {"bulkDelete", "bulkAddToGallery"} =>
            loc[p].code \in {"", "OK", "NOT_FOUND"})
  /\ [][\A p \in Procs :
          (/\ pc[p] = "idle"
           /\ loc'[p].op \in {"bulkDelete", "bulkAddToGallery"}
           /\ \A k \in DOMAIN loc'[p].ids : PhotoRows(photo, loc'[p].ids[k]) # {})
            => loc'[p].code # "NOT_FOUND"]_vars


\* ------------------------------------------------------ C21
\* C21: whenever upload returns an error to the caller, no Photo record
\* created by that call exists afterwards, whichever step failed.
C21_FailedUploadLeavesNoRecord ==
  \A p \in Procs :
    (Done(p, "upload") /\ loc[p].code # "OK")
      => /\ RecordsOf(photo, loc[p].imageId) = {}
         /\ PhotoById(loc[p].photoId) = {}

\* ------------------------------------------------------ C22
\* the first built-in name present, largest size first; "" if none is
FirstPresent(names) ==
  IF "splash" \in names THEN "splash"
  ELSE IF "xlarge" \in names THEN "xlarge"
  ELSE IF "large" \in names THEN "large"
  ELSE IF "medium" \in names THEN "medium"
  ELSE IF "small" \in names THEN "small"
  ELSE IF "thumbnail" \in names THEN "thumbnail"
  ELSE ""

\* C22: regenerating a rendition uses as source the first rendition present
\* in the order splash, xlarge, large, medium, small, thumbnail, and writes
\* the new file from it; when none of the six is in the photo's directory
\* (a directory with only custom renditions included) it reports a failure
\* and writes no file.
C22_RegenStep ==
  \A p \in Procs :
    (pc[p] = "regen" /\ pc'[p] = "done") =>
      LET i == loc[p].imageId
          src == FirstPresent(FilesIn(disk, i))
      IN  IF src # ""
          THEN /\ loc'[p].success
               /\ loc'[p].source = src
               /\ disk' = [disk EXCEPT ![i].files[loc[p].name] =
                             Transcode(disk[i].files[src].w, disk[i].files[src].h,
                                       loc[p].config)]
          ELSE /\ ~loc'[p].success
               /\ disk' = disk

C22_RegenSourceOrder == [][C22_RegenStep]_vars

\* a regeneration failed on a directory that holds a custom rendition only
C22_Witness ==
  \E p \in Procs :
    /\ Done(p, "generateCustomSize")
    /\ ~loc[p].success
    /\ disk[loc[p].imageId].dir
    /\ FilesIn(disk, loc[p].imageId) = CustomNames

\* ------------------------------------------------------ C23
\* the largest sortOrder among the rows of a gallery, 0 for an empty gallery
LargestSortOrder(gp, galleryId) ==
  LET rows == RowsOfGallery(gp, galleryId)
  IN  IF rows = {} THEN 0
      ELSE (CHOOSE g \in rows : \A h \in rows : h.sortOrder <= g.sortOrder).sortOrder

\* C23: the membership rows inserted by one bulkAddToGallery call get the
\* consecutive sortOrder values max+1, max+2, ... in input order, max being
\* the largest sortOrder in the target gallery before the call (0 for an
\* empty gallery): every new sortOrder is strictly greater than every
\* earlier one in that gallery and no two new rows share a sortOrder.
C23_BulkAddStep ==
  \A p \in Procs :
    (/\ loc'[p].op = "bulkAddToGallery"
     /\ pc[p] = "bulkAddInsert" /\ pc'[p] = "done" /\ loc'[p].code = "OK")
      => LET l == loc'[p]
             max == LargestSortOrder(galleryPhoto, l.galleryId)
             input == SelectSeq(l.ids, LAMBDA id : ~Linked(galleryPhoto, l.galleryId, id))
             new == galleryPhoto' \ galleryPhoto
         IN  /\ Cardinality(new) = Len(input)
             /\ \A k \in DOMAIN input :
                  \E g \in new : /\ g.photoId = input[k]
                                 /\ g.galleryId = l.galleryId
                                 /\ g.sortOrder = max + k
             /\ \A g \in new : \A old \in RowsOfGallery(galleryPhoto, l.galleryId) :
                  g.sortOrder > old.sortOrder
             /\ \A g, h \in new : g.sortOrder = h.sortOrder => g = h

C23_BulkAddSortOrders == [][C23_BulkAddStep]_vars

\* a call added one photo to a gallery that already had a row with sortOrder 1
C23_Witness ==
  \E p \in Procs :
    /\ Done(p, "bulkAddToGallery")
    /\ loc[p].code = "OK"
    /\ loc[p].added = 1
    /\ {g.sortOrder : g \in RowsOfGallery(galleryPhoto, loc[p].galleryId)} = {1, 2}

\* ------------------------------------------------------ C24
\* the cached footprint of every record
Footprints(ph) == {<<r.id, r.assetFootprint>> : r \in ph}

\* C24: no step of addSize (with or without backfill) or of deleteSize
\* (with or without file cleanup) changes the assetFootprint of a Photo
\* record, so after them a cached footprint can differ from the size of
\* the photo's directory.
C24_SizeStep ==
  \A p \in Procs :
    (loc'[p].op \in {"addSize", "deleteSize"} /\ loc'[p] # loc[p])
      => Footprints(photo') = Footprints(photo)

C24_SizesKeepFootprint == [][C24_SizeStep]_vars

\* a backfill has written a file and the record's footprint is now less
\* than the bytes in the photo's directory
C24_Witness ==
  \E p \in Procs :
    /\ Done(p, "addSize")
    /\ loc[p].code = "OK"
    /\ loc[p].okCount > 0
    /\ \E r \in photo :
         /\ r.userId = loc[p].user
         /\ loc[p].name \in FilesIn(disk, r.imageId)
         /\ r.assetFootprint < calculateAssetFootprint(disk, r.imageId)

\* ------------------------------------------------------ C25
\* the fixed messages the five handlers have for an internal error
GenericMessages ==
  {"Failed to upload photo", "Failed to update photo", "Failed to delete photo",
   "Failed to add image size", "Failed to delete image size"}

\* C25: from upload, update, delete, addSize and deleteSize a validation,
\* conflict or not-found error reaches the caller with its own message,
\* and an internal error (filesystem, image processing, database) reaches
\* the caller only as a generic message, never as the underlying error's
\* text.
C25_InternalErrorsAreGeneric ==
  \A p \in Procs :
    (/\ pc[p] = "done"
     /\ loc[p].op \in {"upload", "update", "delete", "addSize", "deleteSize"}
     /\ loc[p].code # "OK")
      => IF loc[p].code = "INTERNAL_SERVER_ERROR"
         THEN /\ actionErrorMessage(loc[p]) \in GenericMessages
              /\ actionErrorMessage(loc[p]) # thrownMessage(loc[p])
         ELSE actionErrorMessage(loc[p]) \notin GenericMessages \cup {""}

\* ------------------------------------------------------ C26
\* C26: after any sequence of addSize and deleteSize calls the merged size
\* listing of an owner maps each of the six built-in names to its built-in
\* width, height and quality with isCustom = false, lists every stored
\* custom size of that owner (and nothing else) with isCustom = true and
\* the stored configuration, and no custom entry shadows a built-in.
C26_ListingStep ==
  \A p \in RaceProcs :
    (pc[p] = "idle" /\ loc'[p].op = "getImageSizes" /\ loc'[p].code = "OK") =>
      LET sizes == loc'[p].sizes
          own == {r \in setting : r.userId = loc'[p].user /\ r.category = "image_sizes"}
      IN  /\ DOMAIN sizes = BuiltInNames \cup {r.key : r \in own}
          /\ \A n \in BuiltInNames :
               /\ ~sizes[n].isCustom
               /\ sizes[n].width = IMAGE_SIZES[n].width
               /\ sizes[n].height = IMAGE_SIZES[n].height
               /\ sizes[n].quality = IMAGE_SIZES[n].quality
          /\ \A r \in own :
               /\ sizes[r.key].isCustom
               /\ \E c \in CustomConfigs :
                    /\ JSONstringify(c) = r.value
                    /\ sizes[r.key].width = c.width
                    /\ sizes[r.key].height = c.height
                    /\ sizes[r.key].quality = c.quality

C26_MergedListing == [][C26_ListingStep]_vars

\* a listing that holds a custom size next to the six built-in ones
C26_Witness ==
  \E p \in RaceProcs :
    /\ Done(p, "getImageSizes")
    /\ loc[p].code = "OK"
    /\ \E n \in DOMAIN loc[p].sizes : loc[p].sizes[n].isCustom

\* ------------------------------------------------------ C27
\* C27: whenever update returns successfully it returns the Photo record
\* carrying the new title, description and tags, and otherwise (database
\* failures aside) it fails with NOT_FOUND, under every interleaving of
\* update with a concurrent delete of the same photo; and no step of update
\* re-creates a record that delete removed.
C27_UpdateReturnsRecord ==
  /\ [](\A p \in RaceProcs :
          Done(p, "update") =>
            /\ loc[p].code = "OK" =>
                 /\ loc[p].returned # {}
                 /\ \A r \in loc[p].returned : r.id = loc[p].id /\ r.meta = loc[p].meta
            /\ (loc[p].code # "OK" /\ loc[p].db # "error") => loc[p].code = "NOT_FOUND")
  /\ [][\A p \in RaceProcs :
          loc'[p].op = "update" => {r.id : r \in photo'} \subseteq {r.id : r \in photo}]_vars

\* ------------------------------------------------------ C28
\* C28: custom size names are scoped per owner: addSize is rejected for a
\* name collision only against the built-in names and the caller's own
\* custom sizes, so a valid name that only another owner has stored is
\* accepted and the two owners' sizes of that name coexist.
C28_NamesScopedPerOwner ==
  \A p \in Procs :
    (Done(p, "addSize") /\ loc[p].code # "OK")
      => \/ loc[p].name \in BuiltInNames
         \/ StoredFor(setting, loc[p].user, loc[p].name) # {}

\* ------------------------------------------------------ C29
\* C29: no (photo, gallery) pair ever has more than one membership row, in
\* every reachable state, after any sequence and any interleaving of upload
\* with a galleryId, addToGallery, bulkAddToGallery and removeFromGallery
\* calls.
C29_OneRowPerPair ==
  \A g, h \in galleryPhoto :
    (g.photoId = h.photoId /\ g.galleryId = h.galleryId) => g = h

\* ------------------------------------------------------ C30
\* C30: for an owner whose photos each have a built-in rendition and no
\* file named after the new size, addSize(name, processExisting = true)
\* followed by deleteSize(name, deleteExistingImages = true) restores the
\* size registry and the set of rendition files of every photo to what they
\* were before the two calls.
C30_RoundTripRestores ==
  \A p \in Procs :
    (Done(p, "deleteSize") /\ loc[p].code = "OK") =>
      /\ setting = loc[p].before.setting
      /\ \A i \in ImageIds : FilesIn(disk, i) = FilesIn(loc[p].before.disk, i)

\* C30 as amended: after the two calls the size registry is what it was
\* before them, and every file other than those named after the new size is
\* what it was; the rendition store as a whole is restored when deleteSize
\* reports failed = 0.  A photo whose unlink failed is counted in `failed`
\* and keeps its file of that name.
C30_RoundTripAmended ==
  \A p \in Procs :
    (Done(p, "deleteSize") /\ loc[p].code = "OK") =>
      LET l == loc[p]
          kept == {i \in ImageIds : FilesIn(disk, i) # FilesIn(l.before.disk, i)}
      IN  /\ setting = l.before.setting
          /\ \A i \in ImageIds :
               /\ disk[i].dir = l.before.disk[i].dir
               /\ \A n \in SizeNames \ {l.name} : disk[i].files[n] = l.before.disk[i].files[n]
          /\ kept \subseteq UserImageIds(l.user)
          /\ Cardinality(kept) = l.failed
          /\ l.failed = 0 => disk = l.before.disk

\* the round trip ran over two photos of the owner and removed both files
C30_Witness ==
  \E p \in Procs :
    /\ Done(p, "deleteSize")
    /\ loc[p].code = "OK"
    /\ loc[p].okCount = 2
    /\ loc[p].failed = 0
    /\ disk = loc[p].before.disk
====
